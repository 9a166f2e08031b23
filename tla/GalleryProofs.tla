--------------------------- MODULE GalleryProofs ---------------------------
(***************************************************************************)
(* The Gallery's invariants, for every catalog of drawings, palettes and   *)
(* reasons and every set of ids a request may name.                        *)
(***************************************************************************)
EXTENDS Gallery, TLAPS

(* What Moderate does to one row and to the others. *)
Moderated(verdict) ==
    [postcards EXCEPT ![verdict.postcard].status = To(verdict.action),
                      ![verdict.postcard].reason = verdict.reason]

-----------------------------------------------------------------------------
(* A new row is a well-typed one. *)
LEMMA NewPostcardType ==
    ASSUME NEW draft \in Draft PROVE NewPostcard(draft) \in Postcard
BY DEF NewPostcard, Postcard, Draft

(* A moderated table has the same ids, and differs in one row only. *)
LEMMA ModeratedRows ==
    ASSUME postcards \in Seq(Postcard), NEW verdict \in Verdict,
           verdict.postcard \in DOMAIN postcards
    PROVE  /\ Moderated(verdict) \in Seq(Postcard)
           /\ DOMAIN Moderated(verdict) = DOMAIN postcards
           /\ \A id \in DOMAIN postcards :
                 /\ Moderated(verdict)[id].parent = postcards[id].parent
                 /\ id # verdict.postcard => Moderated(verdict)[id] = postcards[id]
           /\ Moderated(verdict)[verdict.postcard].status = To(verdict.action)
           /\ Moderated(verdict)[verdict.postcard].reason = verdict.reason
<1> DEFINE row == postcards[verdict.postcard]
           new == [row EXCEPT !.status = To(verdict.action), !.reason = verdict.reason]
<1>1. row \in Postcard
  OBVIOUS
<1>2. To(verdict.action) \in {"visible", "hidden"} /\ verdict.reason \in Reasons
  BY DEF To, Verdict
<1>3. /\ new \in Postcard
      /\ new.parent = row.parent
      /\ new.status = To(verdict.action)
      /\ new.reason = verdict.reason
  BY <1>1, <1>2 DEF Postcard
<1>4. Moderated(verdict) = [postcards EXCEPT ![verdict.postcard] = new]
  BY DEF Moderated
<1> HIDE DEF new
<1>5. QED
  BY <1>3, <1>4

(***************************************************************************)
(* THEOREM  The tables stay well typed.                                    *)
(***************************************************************************)
LEMMA TypeStep ==
    ASSUME TypeOK, [Next]_vars PROVE TypeOK'
<1>1. ASSUME NEW draft \in Draft, Publish(draft) PROVE TypeOK'
  BY <1>1, NewPostcardType DEF Publish, TypeOK
<1>2. ASSUME NEW verdict \in Verdict, Moderate(verdict) PROVE TypeOK'
  <2>1. postcards' = Moderated(verdict) /\ events' = Append(events, verdict)
    BY <1>2 DEF Moderate, Moderated
  <2>2. verdict.postcard \in DOMAIN postcards
    BY <1>2 DEF Moderate, Matches
  <2>3. QED
    BY <2>1, <2>2, ModeratedRows DEF TypeOK
<1>3. CASE UNCHANGED vars
  BY <1>3 DEF TypeOK, vars
<1>4. QED
  BY <1>1, <1>2, <1>3 DEF Next

THEOREM TypeCorrect == Spec => []TypeOK
<1>1. Init => TypeOK
  BY DEF Init, TypeOK
<1>2. TypeOK /\ [Next]_vars => TypeOK'
  BY TypeStep
<1>3. QED
  BY <1>1, <1>2, PTL DEF Spec

-----------------------------------------------------------------------------
(***************************************************************************)
(* THEOREM  Every remix names an older postcard.                           *)
(***************************************************************************)
LEMMA ParentsStep ==
    ASSUME TypeOK, ParentsAreOlder, [Next]_vars PROVE ParentsAreOlder'
<1>1. ASSUME NEW draft \in Draft, Publish(draft) PROVE ParentsAreOlder'
  <2>1. /\ Len(postcards) \in Nat
        /\ DOMAIN postcards = 1 .. Len(postcards)
        /\ DOMAIN postcards' = 1 .. (Len(postcards) + 1)
        /\ \A id \in DOMAIN postcards : postcards'[id] = postcards[id]
        /\ postcards'[Len(postcards) + 1] = NewPostcard(draft)
    BY <1>1, NewPostcardType DEF Publish, TypeOK
  <2>2. draft.parent # NoParent => draft.parent \in DOMAIN postcards
    BY <1>1 DEF Publish, ParentVisible, Visible
  <2>3. NewPostcard(draft).parent = draft.parent
    BY DEF NewPostcard
  <2>4. SUFFICES ASSUME NEW id \in DOMAIN postcards', postcards'[id].parent # NoParent
                 PROVE  postcards'[id].parent \in 1 .. (id - 1)
    BY DEF ParentsAreOlder
  <2>5. CASE id \in DOMAIN postcards
    BY <2>1, <2>4, <2>5 DEF ParentsAreOlder
  <2>6. CASE id = Len(postcards) + 1
    BY <2>1, <2>2, <2>3, <2>4, <2>6
  <2>7. QED
    BY <2>1, <2>5, <2>6
<1>2. ASSUME NEW verdict \in Verdict, Moderate(verdict) PROVE ParentsAreOlder'
  <2>1. postcards' = Moderated(verdict) /\ verdict.postcard \in DOMAIN postcards
    BY <1>2 DEF Moderate, Moderated, Matches
  <2>2. QED
    BY <2>1, ModeratedRows DEF TypeOK, ParentsAreOlder
<1>3. CASE UNCHANGED vars
  BY <1>3 DEF ParentsAreOlder, vars
<1>4. QED
  BY <1>1, <1>2, <1>3 DEF Next

THEOREM ParentsOlder == Spec => []ParentsAreOlder
<1>1. Init => ParentsAreOlder
  BY DEF Init, ParentsAreOlder
<1>2. TypeOK /\ ParentsAreOlder /\ [Next]_vars => ParentsAreOlder'
  BY ParentsStep
<1>3. QED
  BY <1>1, <1>2, TypeCorrect, PTL DEF Spec

-----------------------------------------------------------------------------
(***************************************************************************)
(* THEOREM  Status column and moderation log agree, and the log is a       *)
(* history.  Neither is inductive alone: that a hide is only ever logged   *)
(* after a restore follows from the status that both the guard of the      *)
(* UPDATE and the last event name, and the agreement survives because the  *)
(* new event becomes the last one about its postcard and about no other.   *)
(* An event about a postcard that is not there would be read as the        *)
(* history of the next publication: LogAlternates excludes it.             *)
(***************************************************************************)
LogInv == StatusMatchesLog /\ LogAlternates

(* A publication adds a row nobody has moderated. *)
LEMMA LogPublish ==
    ASSUME TypeOK, LogInv, NEW draft \in Draft, Publish(draft) PROVE LogInv'
<1>1. /\ Len(postcards) \in Nat
      /\ DOMAIN postcards = 1 .. Len(postcards)
      /\ DOMAIN postcards' = 1 .. (Len(postcards) + 1)
      /\ \A id \in DOMAIN postcards : postcards'[id] = postcards[id]
      /\ postcards'[Len(postcards) + 1] = NewPostcard(draft)
      /\ events' = events
  BY NewPostcardType DEF Publish, TypeOK
<1>2. \A id : EventsOf(events', id) = EventsOf(events, id)
  BY <1>1 DEF EventsOf
<1>3. EventsOf(events, Len(postcards) + 1) = {}
  BY <1>1 DEF LogInv, LogAlternates, EventsOf
<1>4. StatusMatchesLog'
  <2>1. SUFFICES ASSUME NEW id \in DOMAIN postcards'
                 PROVE  \/ /\ EventsOf(events', id) = {}
                           /\ postcards'[id].status = "visible"
                           /\ postcards'[id].reason = NoReason
                        \/ \E n \in DOMAIN events :
                              /\ IsLastEventOf(events, n, id)
                              /\ postcards'[id].status = To(events[n].action)
                              /\ postcards'[id].reason = events[n].reason
    BY <1>1, <1>2 DEF StatusMatchesLog, IsLastEventOf
  <2>2. CASE id \in DOMAIN postcards
    BY <1>1, <1>2, <2>2 DEF LogInv, StatusMatchesLog
  <2>3. CASE id = Len(postcards) + 1
    BY <1>1, <1>2, <1>3, <2>3 DEF NewPostcard
  <2>4. QED
    BY <1>1, <2>2, <2>3
<1>5. LogAlternates'
  BY <1>1, <1>2 DEF LogInv, LogAlternates
<1>6. QED
  BY <1>4, <1>5 DEF LogInv

(* A moderation action adds the event that is then the last one about its  *)
(* postcard.                                                               *)
LEMMA LogModerate ==
    ASSUME TypeOK, LogInv, NEW verdict \in Verdict, Moderate(verdict)
    PROVE  LogInv'
<1> DEFINE target == verdict.postcard
           next == Len(events) + 1
<1>1. /\ target \in DOMAIN postcards
      /\ postcards[target].status = From(verdict.action)
      /\ postcards' = Moderated(verdict)
      /\ events' = Append(events, verdict)
  BY DEF Moderate, Moderated, Matches
<1>2. /\ Len(events) \in Nat
      /\ DOMAIN events = 1 .. Len(events)
      /\ DOMAIN events' = 1 .. next
      /\ \A n \in DOMAIN events : events'[n] = events[n]
      /\ events'[next] = verdict
  BY <1>1 DEF TypeOK
<1>3. /\ DOMAIN postcards' = DOMAIN postcards
      /\ \A id \in DOMAIN postcards : id # target => postcards'[id] = postcards[id]
      /\ postcards'[target].status = To(verdict.action)
      /\ postcards'[target].reason = verdict.reason
  BY <1>1, ModeratedRows DEF TypeOK
<1>4. /\ EventsOf(events', target) = EventsOf(events, target) \cup {next}
      /\ \A id : id # target => EventsOf(events', id) = EventsOf(events, id)
      /\ \A id : EventsOf(events, id) \subseteq DOMAIN events
  BY <1>2 DEF EventsOf
<1>5. StatusMatchesLog'
  <2>1. SUFFICES ASSUME NEW id \in DOMAIN postcards
                 PROVE  \/ /\ EventsOf(events', id) = {}
                           /\ postcards'[id].status = "visible"
                           /\ postcards'[id].reason = NoReason
                        \/ \E n \in DOMAIN events' :
                              /\ IsLastEventOf(events', n, id)
                              /\ postcards'[id].status = To(events'[n].action)
                              /\ postcards'[id].reason = events'[n].reason
    BY <1>3 DEF StatusMatchesLog
  <2>2. CASE id = target
    <3>1. IsLastEventOf(events', next, target)
      BY <1>2, <1>4 DEF IsLastEventOf
    <3>2. QED
      BY <1>2, <1>3, <2>2, <3>1
  <2>3. CASE id # target
    <3>1. \A n : IsLastEventOf(events', n, id) <=> IsLastEventOf(events, n, id)
      BY <1>4, <2>3 DEF IsLastEventOf
    <3>2. QED
      BY <1>2, <1>3, <1>4, <2>3, <3>1 DEF LogInv, StatusMatchesLog
  <2>4. QED
    BY <2>2, <2>3
<1>6. LogAlternates'
  <2>1. SUFFICES ASSUME NEW n \in DOMAIN events'
                 PROVE  /\ events'[n].postcard \in DOMAIN postcards'
                        /\ \/ /\ \A m \in EventsOf(events', events'[n].postcard) : m >= n
                              /\ events'[n].action = "hide"
                           \/ \E m \in EventsOf(events', events'[n].postcard) :
                                 /\ m < n
                                 /\ \A k \in EventsOf(events', events'[n].postcard) :
                                       k < n => k <= m
                                 /\ events'[n].action # events'[m].action
    BY DEF LogAlternates
  <2>2. CASE n \in DOMAIN events
    BY <1>2, <1>3, <1>4, <2>2 DEF LogInv, LogAlternates
  <2>3. CASE n = next
    <3>1. CASE EventsOf(events, target) = {}
      <4>1. postcards[target].status = "visible"
        BY <1>1, <3>1 DEF LogInv, StatusMatchesLog, IsLastEventOf
      <4>2. verdict.action = "hide"
        BY <1>1, <4>1 DEF From
      <4>3. QED
        BY <1>1, <1>2, <1>3, <1>4, <2>3, <3>1, <4>2
    <3>2. CASE EventsOf(events, target) # {}
      <4>1. PICK m \in DOMAIN events :
                   /\ IsLastEventOf(events, m, target)
                   /\ postcards[target].status = To(events[m].action)
        BY <1>1, <3>2 DEF LogInv, StatusMatchesLog
      <4>2. events[m].action # verdict.action
        BY <1>1, <4>1 DEF From, To
      <4>3. m \in EventsOf(events', target) /\ m < next /\ events'[m] = events[m]
        BY <1>2, <1>4, <4>1 DEF IsLastEventOf
      <4>4. \A k \in EventsOf(events', target) : k < next => k <= m
        BY <1>4, <4>1 DEF IsLastEventOf
      <4>5. QED
        BY <1>1, <1>2, <1>3, <2>3, <4>2, <4>3, <4>4
    <3>3. QED
      BY <3>1, <3>2
  <2>4. QED
    BY <1>2, <2>2, <2>3
<1>7. QED
  BY <1>5, <1>6 DEF LogInv

THEOREM LogCorrect == Spec => [](StatusMatchesLog /\ LogAlternates)
<1>1. Init => LogInv
  BY DEF Init, LogInv, StatusMatchesLog, LogAlternates
<1>2. TypeOK /\ LogInv /\ [Next]_vars => LogInv'
  <2>1. CASE UNCHANGED vars
    BY <2>1 DEF LogInv, StatusMatchesLog, LogAlternates, EventsOf, IsLastEventOf, vars
  <2>2. QED
    BY <2>1, LogPublish, LogModerate DEF Next
<1>3. LogInv => StatusMatchesLog /\ LogAlternates
  BY DEF LogInv
<1>4. QED
  BY <1>1, <1>2, <1>3, TypeCorrect, PTL DEF Spec

-----------------------------------------------------------------------------
(* What a visitor sees of the Gallery. *)
Wall == INSTANCE PublicWall WITH newest <- Len(postcards), visible <- Visible(postcards)

(* A publication adds one visible postcard, with the next id. *)
LEMMA PublishOnWall ==
    ASSUME TypeOK, NEW draft \in Draft, Publish(draft)
    PROVE  Wall!Publish
<1> DEFINE row == NewPostcard(draft)
           next == Len(postcards) + 1
<1>1. row \in Postcard /\ row.status = "visible"
  BY NewPostcardType DEF NewPostcard
<1>2. postcards \in Seq(Postcard) /\ postcards' = Append(postcards, row)
  BY DEF TypeOK, Publish
<1>3. Len(postcards') = next /\ DOMAIN postcards' = DOMAIN postcards \cup {next}
  BY <1>1, <1>2
<1>4. postcards'[next] = row /\ \A id \in DOMAIN postcards : postcards'[id] = postcards[id]
  BY <1>1, <1>2
<1>5. Visible(postcards') = Visible(postcards) \cup {next}
  BY <1>1, <1>3, <1>4 DEF Visible
<1>6. QED
  BY <1>3, <1>5 DEF Wall!Publish

(* A verdict hides a visible postcard or restores a hidden one. *)
LEMMA ModerateOnWall ==
    ASSUME TypeOK, NEW verdict \in Verdict, Moderate(verdict)
    PROVE  \E id \in 1 .. Len(postcards) : Wall!Hide(id) \/ Wall!Restore(id)
<1> DEFINE target == verdict.postcard
<1>1. /\ postcards \in Seq(Postcard)
      /\ target \in DOMAIN postcards
      /\ postcards[target].status = From(verdict.action)
      /\ postcards' = Moderated(verdict)
  BY DEF TypeOK, Moderate, Matches, Moderated
<1>2. /\ DOMAIN postcards' = DOMAIN postcards
      /\ postcards'[target].status = To(verdict.action)
      /\ \A id \in DOMAIN postcards : id # target => postcards'[id] = postcards[id]
      /\ postcards' \in Seq(Postcard)
  BY <1>1, ModeratedRows
<1>3. target \in 1 .. Len(postcards) /\ Len(postcards') = Len(postcards)
  BY <1>1, <1>2
<1>4. CASE verdict.action = "hide"
  <2>1. target \in Visible(postcards) /\ Visible(postcards') = Visible(postcards) \ {target}
    BY <1>1, <1>2, <1>4 DEF Visible, From, To
  <2>2. QED
    BY <1>3, <2>1 DEF Wall!Hide
<1>5. CASE verdict.action = "restore"
  <2>1. /\ target \notin Visible(postcards)
        /\ Visible(postcards') = Visible(postcards) \cup {target}
    BY <1>1, <1>2, <1>5 DEF Visible, From, To
  <2>2. QED
    BY <1>3, <2>1 DEF Wall!Restore
<1>6. QED
  BY <1>4, <1>5 DEF Verdict

(* The Gallery implements the wall: every publication and every verdict,    *)
(* whatever its draft and its reason, is a step of PublicWall, on which     *)
(* WallClient is built (InsertWithPalette, setModeration).                  *)
THEOREM WallImplemented == Spec => Wall!Spec
<1>1. Init => Wall!Init
  BY DEF Init, Wall!Init, Visible
<1>2. TypeOK /\ [Next]_vars => [Wall!Next]_(Wall!vars)
  <2>1. CASE UNCHANGED vars
    BY <2>1 DEF vars, Wall!vars
  <2>2. ASSUME TypeOK, NEW draft \in Draft, Publish(draft) PROVE Wall!Next
    BY <2>2, PublishOnWall DEF Wall!Next
  <2>3. ASSUME TypeOK, NEW verdict \in Verdict, Moderate(verdict) PROVE Wall!Next
    BY <2>3, ModerateOnWall DEF Wall!Next
  <2>4. QED
    BY <2>1, <2>2, <2>3 DEF Next
<1>3. QED
  BY <1>1, <1>2, TypeCorrect, PTL DEF Spec, Wall!Spec
=============================================================================
