------------------------- MODULE PublishFlowProofs -------------------------
(***************************************************************************)
(* What holds of every publication of the visitor, for any bounds, any     *)
(* drawings and palettes, and whatever is lost, late or refused.           *)
(***************************************************************************)
EXTENDS PublishFlow, TLAPS

GalleryTheorems == INSTANCE GalleryProofs

-----------------------------------------------------------------------------
(* The Gallery of the flow and the one of its theorems are the same. *)
LEMMA SameSets == /\ Server!Draft = Draft
                  /\ Server!Verdict = Verdict
                  /\ Server!Postcard = Postcard
                  /\ Server!TypeOK <=> GalleryTheorems!TypeOK
BY DEF Server!Draft, Draft, Server!NoParent, NoParent, Server!Verdict, Verdict,
       Server!Postcard, Postcard, Server!TypeOK,
       GalleryTheorems!TypeOK, GalleryTheorems!Postcard, GalleryTheorems!Verdict,
       GalleryTheorems!NoParent

LEMMA SameNext == [Server!Next]_Server!vars => [GalleryTheorems!Next]_GalleryTheorems!vars
BY DEF Server!Next, Server!vars, Server!Publish, Server!Moderate, Server!ParentVisible,
       Server!RepeatsLatest, Server!NewPostcard, Server!Visible, Server!NoParent,
       Server!Matches, Server!From, Server!To, Server!Draft, Server!Verdict,
       GalleryTheorems!Next, GalleryTheorems!vars, GalleryTheorems!Publish,
       GalleryTheorems!Moderate, GalleryTheorems!ParentVisible,
       GalleryTheorems!RepeatsLatest, GalleryTheorems!NewPostcard,
       GalleryTheorems!Visible, GalleryTheorems!NoParent,
       GalleryTheorems!Matches, GalleryTheorems!From, GalleryTheorems!To,
       GalleryTheorems!Draft, GalleryTheorems!Verdict

(* Every step of the flow is a step of the Gallery or leaves it alone. *)
LEMMA NextServes == TypeOK /\ [Next]_vars => [Server!Next]_Server!vars
<1> SUFFICES ASSUME TypeOK, [Next]_vars PROVE [Server!Next]_Server!vars
    OBVIOUS
<1>1. CASE PublishElsewhere
    BY <1>1, SameSets DEF PublishElsewhere, Server!Next
<1>2. CASE ModerateElsewhere
    BY <1>2, SameSets DEF ModerateElsewhere, Server!Next
<1>3. ASSUME NEW n \in DOMAIN requests, Accept(n) PROVE Server!Next
    <2>1. requests[n].draft \in Draft
        <3>1. requests[n] \in Request
            BY <1>3 DEF TypeOK
        <3>2. QED
            BY <3>1 DEF Request
    <2>2. QED
        BY <1>3, <2>1, SameSets DEF Accept, Server!Next
<1>4. CASE server' = server
    BY <1>4 DEF server, Server!vars
<1>5. QED
    BY <1>1, <1>2, <1>3, <1>4
       DEF Next, vars, server, Edit, Load, RemixRead, RemixArrives, RemixFails, Send, Handle,
           Limit, RejectParent, RejectRepeat, StoreFails, Answered, Lost, WallLoaded

LEMMA ServerTyped == TypeOK /\ [Next]_vars => Server!TypeOK'
<1> SUFFICES ASSUME TypeOK, [Next]_vars PROVE Server!TypeOK'
    OBVIOUS
<1>1. [GalleryTheorems!Next]_GalleryTheorems!vars
    BY NextServes, SameNext
<1>2. GalleryTheorems!TypeOK
    BY SameSets DEF TypeOK
<1>3. GalleryTheorems!TypeOK'
    BY <1>1, <1>2, TableAssumption, GalleryTheorems!TypeStep
<1>4. QED
    BY <1>3 DEF Server!TypeOK, Server!Postcard, Server!Verdict, Server!NoParent,
       GalleryTheorems!TypeOK, GalleryTheorems!Postcard, GalleryTheorems!Verdict,
       GalleryTheorems!NoParent

(* No postcard goes away. *)
LEMMA RowsStay == TypeOK /\ [Next]_vars => DOMAIN postcards \subseteq DOMAIN postcards'
<1> SUFFICES ASSUME TypeOK, [Next]_vars PROVE DOMAIN postcards \subseteq DOMAIN postcards'
    OBVIOUS
<1>1. postcards \in Seq(Server!Postcard)
    BY DEF TypeOK, Server!TypeOK
<1>2. ASSUME NEW value \in Server!Draft, Server!Publish(value)
      PROVE  DOMAIN postcards \subseteq DOMAIN postcards'
    BY <1>1, <1>2 DEF Server!Publish
<1>3. ASSUME NEW verdict \in Server!Verdict, Server!Moderate(verdict)
      PROVE  DOMAIN postcards \subseteq DOMAIN postcards'
    BY <1>3 DEF Server!Moderate
<1>4. CASE UNCHANGED Server!vars
    BY <1>4 DEF Server!vars
<1>5. QED
    BY <1>2, <1>3, <1>4, NextServes DEF Server!Next

(* A publication without a parent, or with another drawing, is one still.   *)
LEMMA DraftParts ==
    ASSUME NEW value \in Draft
    PROVE  /\ [value EXCEPT !.parent = NoParent] \in Draft
           /\ [value EXCEPT !.parent = NoParent].parent = NoParent
           /\ \A pixels \in Pixels, palette \in Palettes :
                 /\ [value EXCEPT !.pixels = pixels, !.palette = palette] \in Draft
                 /\ [value EXCEPT !.pixels = pixels, !.palette = palette].parent = value.parent
BY DEF Draft

LEMMA FreshTyped == FreshDraft \in Draft /\ FreshDraft.parent = NoParent /\ NoParent \in Targets
BY FlowAssumption DEF FreshDraft, Draft, Targets

-----------------------------------------------------------------------------
(* What the visitor's page does to types. *)
LEMMA PageTyped ==
    ASSUME TypeOK,
           \/ \E pixels \in Pixels, palette \in Palettes : Edit(pixels, palette)
           \/ \E target \in Targets : Load(target)
           \/ RemixRead \/ RemixArrives \/ RemixFails
           \/ Answered \/ Lost \/ WallLoaded,
           Server!TypeOK', DOMAIN postcards \subseteq DOMAIN postcards'
    PROVE  TypeOK'
<1>1. ASSUME NEW pixels \in Pixels, NEW palette \in Palettes, Edit(pixels, palette)
      PROVE  TypeOK'
    BY <1>1, DraftParts DEF TypeOK, Edit, Save, server, fetching
<1>2. ASSUME NEW target \in Targets, Load(target) PROVE TypeOK'
    BY <1>2, FreshTyped DEF TypeOK, Load, Restored, server
<1>3. CASE RemixRead
    BY <1>3 DEF TypeOK, RemixRead, Visible, server, work
<1>4. CASE RemixArrives
    <2>1. postcards[remix] \in Postcard /\ remix \in Targets
        <3>1. remix \in DOMAIN postcards /\ postcards \in Seq(Postcard)
            BY <1>4, SameSets DEF TypeOK, Server!TypeOK, RemixArrives
        <3>2. QED
            BY <3>1 DEF TypeOK
    <2>2. editor' \in Draft
        BY <1>4, <2>1 DEF RemixArrives, Postcard, Draft, Targets
    <2>3. QED
        BY <1>4, <2>1, <2>2, FreshTyped DEF TypeOK, RemixArrives, Save, server
<1>5. CASE RemixFails
    BY <1>5, DraftParts, FreshTyped DEF TypeOK, RemixFails, server
<1>6. CASE Answered
    <2>1. CASE Succeeded
        BY <1>6, <2>1, DraftParts, FreshTyped DEF TypeOK, Answered, Succeeded, server, fetching
    <2>2. CASE Refused
        BY <1>6, <2>2 DEF TypeOK, Answered, Refused, server, work, fetching
    <2>3. QED
        BY <1>6, <2>1, <2>2 DEF Answered, Respond
<1>7. CASE Lost
    BY <1>7 DEF TypeOK, Lost, Refused, server, work, fetching
<1>8. CASE WallLoaded
    BY <1>8 DEF TypeOK, WallLoaded, server, work, fetching
<1>9. QED
    BY <1>1, <1>2, <1>3, <1>4, <1>5, <1>6, <1>7, <1>8

(* Answering a request changes its answer, and nothing else of any. *)
LEMMA AnswerKeeps ==
    ASSUME TypeOK, NEW n \in DOMAIN requests, NEW answer \in Answers,
           NEW postcard \in 0 .. MaxPostcards, Answer(n, answer, postcard)
    PROVE  /\ requests' \in Seq(Request)
           /\ DOMAIN requests' = DOMAIN requests
           /\ requests'[n].answer = answer
           /\ requests'[n].postcard = postcard
           /\ \A m \in DOMAIN requests :
                 /\ requests'[m].draft = requests[m].draft
                 /\ requests'[m].origin = requests[m].origin
                 /\ m # n => requests'[m] = requests[m]
<1> DEFINE row == requests[n]
           new == [row EXCEPT !.answer = answer, !.postcard = postcard]
<1>1. requests \in Seq(Request) /\ row \in Request
    BY DEF TypeOK
<1>2. /\ new \in Request
      /\ new.draft = row.draft /\ new.origin = row.origin
      /\ new.answer = answer /\ new.postcard = postcard
    BY <1>1 DEF Request
<1>3. requests' = [requests EXCEPT ![n] = new]
    BY DEF Answer
<1> HIDE DEF new
<1>4. QED
    BY <1>1, <1>2, <1>3

(* Whatever handlePostcard decides, it answers. *)
LEMMA HandleAnswers ==
    ASSUME TypeOK, NEW n \in DOMAIN requests, Handle(n)
    PROVE  \E answer \in Answers, postcard \in 0 .. MaxPostcards : Answer(n, answer, postcard)
<1>1. 0 \in 0 .. MaxPostcards
    BY FlowAssumption
<1>2. CASE Accept(n)
    <2>1. Len(postcards) + 1 \in 0 .. MaxPostcards
        BY <1>2, FlowAssumption DEF Accept, TypeOK, Server!TypeOK
    <2>2. QED
        BY <1>2, <2>1 DEF Accept, Answers
<1>3. CASE ~Accept(n)
    BY <1>1, <1>3 DEF Handle, Limit, RejectParent, RejectRepeat, StoreFails, Answers
<1>4. QED
    BY <1>2, <1>3

LEMMA TypeStep == TypeOK /\ [Next]_vars => TypeOK'
<1> SUFFICES ASSUME TypeOK, [Next]_vars PROVE TypeOK'
    OBVIOUS
<1>1. Server!TypeOK' /\ DOMAIN postcards \subseteq DOMAIN postcards'
    BY ServerTyped, RowsStay
<1>2. CASE UNCHANGED vars
    BY <1>1, <1>2 DEF TypeOK, vars, work, fetching
<1>3. CASE PublishElsewhere \/ ModerateElsewhere
    BY <1>1, <1>3 DEF TypeOK, PublishElsewhere, ModerateElsewhere, work, fetching
<1>4. CASE Send
    <2>1. [draft |-> editor, answer |-> "none", postcard |-> 0, origin |-> origin] \in Request
        BY FlowAssumption DEF TypeOK, Request
    <2>2. requests' \in Seq(Request) /\ requests' # <<>>
        BY <1>4, <2>1 DEF Send, TypeOK
    <2>3. QED
        BY <1>1, <1>4, <2>2 DEF TypeOK, Send, work, fetching
<1>5. ASSUME NEW n \in DOMAIN requests, Handle(n) PROVE TypeOK'
    <2>1. PICK answer \in Answers, postcard \in 0 .. MaxPostcards : Answer(n, answer, postcard)
        BY <1>5, HandleAnswers
    <2>2. requests' \in Seq(Request) /\ DOMAIN requests' = DOMAIN requests
        BY <2>1, AnswerKeeps
    <2>3. requests' # <<>>
        BY <1>5, <2>2 DEF TypeOK
    <2>4. QED
        BY <1>1, <2>1, <2>2, <2>3 DEF TypeOK, Answer, work, fetching
<1>6. QED
    BY <1>1, <1>2, <1>3, <1>4, <1>5, PageTyped DEF Next

(* Theorem: the page, the requests and the Gallery keep their types, and a  *)
(* remix that was found stays there to be drawn.                            *)
THEOREM TypeCorrect == Spec => []TypeOK
<1>1. Init => TypeOK
    <2> SUFFICES ASSUME Init PROVE TypeOK
        OBVIOUS
    <2>1. \A S : <<>> \in Seq(S)
        OBVIOUS
    <2>2. Server!TypeOK
        BY <2>1 DEF Init, Server!Init, Server!TypeOK
    <2>3. requests \in Seq(Request)
        BY <2>1 DEF Init
    <2>4. QED
        BY <2>2, <2>3, FreshTyped DEF Init, TypeOK
<1>2. QED
    BY <1>1, TypeStep, PTL DEF Spec

-----------------------------------------------------------------------------
(* The editor and the draft never name a parent but their own. *)
ParentsOwn == /\ editor.parent \in {NoParent, origin}
              /\ draft # NoDraft => draft.parent \in {NoParent, draftOrigin}

ParentInv == ParentsOwn /\ NeverWrongParent

LEMMA ParentsStep == TypeOK /\ ParentInv /\ [Next]_vars => ParentInv'
<1> SUFFICES ASSUME TypeOK, ParentInv, [Next]_vars PROVE ParentInv'
    OBVIOUS
<1> USE DEF ParentInv
<1>1. CASE UNCHANGED vars \/ PublishElsewhere \/ ModerateElsewhere \/ RemixRead \/ WallLoaded
    BY <1>1 DEF vars, work, fetching, PublishElsewhere, ModerateElsewhere, RemixRead,
                WallLoaded, ParentsOwn, NeverWrongParent
<1>2. ASSUME NEW pixels \in Pixels, NEW palette \in Palettes, Edit(pixels, palette)
      PROVE  ParentInv'
    BY <1>2, DraftParts DEF Edit, Save, ParentsOwn, NeverWrongParent, TypeOK
<1>3. ASSUME NEW target \in Targets, Load(target) PROVE ParentInv'
    BY <1>3, FreshTyped DEF Load, Restored, ParentsOwn, NeverWrongParent
<1>4. CASE RemixArrives
    BY <1>4 DEF RemixArrives, Save, ParentsOwn, NeverWrongParent
<1>5. CASE RemixFails
    BY <1>5, DraftParts DEF RemixFails, ParentsOwn, NeverWrongParent, TypeOK
<1>6. CASE Send
    <2> DEFINE new == [draft |-> editor, answer |-> "none", postcard |-> 0, origin |-> origin]
    <2>1. new \in Request /\ new.draft = editor /\ new.origin = origin
        BY FlowAssumption DEF TypeOK, Request
    <2>2. requests \in Seq(Request) /\ requests' = Append(requests, new)
        BY <1>6 DEF TypeOK, Send
    <2> HIDE DEF new
    <2>3. \A n \in DOMAIN requests' :
             requests'[n] = IF n = Len(requests) + 1 THEN new ELSE requests[n]
        BY <2>1, <2>2
    <2>4. \A n \in DOMAIN requests' : n # Len(requests) + 1 => n \in DOMAIN requests
        BY <2>1, <2>2
    <2>5. NeverWrongParent'
        BY <2>1, <2>3, <2>4 DEF NeverWrongParent, ParentsOwn
    <2>6. QED
        BY <1>6, <2>5 DEF Send, work, ParentsOwn
<1>7. ASSUME NEW n \in DOMAIN requests, Handle(n) PROVE ParentInv'
    <2>1. PICK answer \in Answers, postcard \in 0 .. MaxPostcards : Answer(n, answer, postcard)
        BY <1>7, HandleAnswers
    <2>2. NeverWrongParent'
        BY <2>1, AnswerKeeps DEF NeverWrongParent
    <2>3. QED
        BY <2>1, <2>2 DEF Answer, work, ParentsOwn
<1>8. CASE Answered
    BY <1>8, DraftParts DEF Answered, Respond, Succeeded, Refused, work, ParentsOwn,
                            NeverWrongParent, TypeOK
<1>9. CASE Lost
    BY <1>9 DEF Lost, Refused, work, ParentsOwn, NeverWrongParent
<1>10. QED
    BY <1>1, <1>2, <1>3, <1>4, <1>5, <1>6, <1>7, <1>8, <1>9 DEF Next

(* Theorem: whatever remixes arrive or fail and drafts are restored, no     *)
(* publication names a parent that it is not a remix of (loadRemix).        *)
THEOREM ParentsRight == Spec => []NeverWrongParent
<1>1. Init => ParentInv
    BY FreshTyped DEF Init, ParentInv, ParentsOwn, NeverWrongParent
<1>2. ParentInv => NeverWrongParent
    BY DEF ParentInv
<1>3. QED
    BY <1>1, <1>2, TypeCorrect, ParentsStep, PTL DEF Spec

-----------------------------------------------------------------------------
(* Theorem: only the answer "created" costs the visitor a draft; refused,   *)
(* failed and lost publications do not (publish, app.js).                   *)
THEOREM DraftsKept == Spec => DraftOutlivesFailure
<1> DEFINE Kept == draft # NoDraft /\ draft' = NoDraft =>
                     publishing = "sent" /\ Latest.answer = "created"
<1>1. TypeOK /\ TypeOK' /\ [Next]_vars => [Kept]_vars
    <2> SUFFICES ASSUME TypeOK, TypeOK', Next, draft # NoDraft, draft' = NoDraft
                 PROVE  publishing = "sent" /\ Latest.answer = "created"
        OBVIOUS
    <2>1. editor' # NoDraft
        BY FlowAssumption DEF TypeOK
    <2>2. Answered
        BY <2>1 DEF Next, PublishElsewhere, ModerateElsewhere, Edit, Load, RemixRead,
                    RemixArrives, RemixFails, Send, Handle, Accept, Limit, RejectParent,
                    RejectRepeat, StoreFails, Answer, Lost, Refused, WallLoaded, Save, work
    <2>3. QED
        BY <2>2 DEF Answered, Respond, Refused, work
<1>2. QED
    BY <1>1, TypeCorrect, PTL DEF Spec, DraftOutlivesFailure

-----------------------------------------------------------------------------
(* The flow is the Gallery with more around it. *)
LEMMA FlowIsGallery == Spec => GalleryTheorems!Spec
<1>1. Init => GalleryTheorems!Init
    BY DEF Init, Server!Init, GalleryTheorems!Init
<1>2. TypeOK /\ [Next]_vars => [GalleryTheorems!Next]_GalleryTheorems!vars
    BY NextServes, SameNext
<1>3. QED
    BY <1>1, <1>2, TypeCorrect, PTL DEF Spec, GalleryTheorems!Spec

(* A postcard keeps its drawing, and an event stays in the log. *)
LEMMA RowsKeep ==
    TypeOK /\ [Next]_vars =>
        /\ \A id \in DOMAIN postcards : /\ postcards'[id].pixels = postcards[id].pixels
                                         /\ postcards'[id].palette = postcards[id].palette
        /\ \A id : Server!EventsOf(events, id) \subseteq Server!EventsOf(events', id)
<1> DEFINE Kept == \A id \in DOMAIN postcards :
                       /\ postcards'[id].pixels = postcards[id].pixels
                       /\ postcards'[id].palette = postcards[id].palette
           Logged == \A id : Server!EventsOf(events, id) \subseteq Server!EventsOf(events', id)
<1> SUFFICES ASSUME TypeOK, [Next]_vars PROVE Kept /\ Logged
    OBVIOUS
<1>1. postcards \in Seq(Server!Postcard) /\ events \in Seq(Server!Verdict)
    BY DEF TypeOK, Server!TypeOK
<1>2. ASSUME NEW value \in Server!Draft, Server!Publish(value) PROVE Kept /\ Logged
    BY <1>1, <1>2 DEF Server!Publish
<1>3. ASSUME NEW verdict \in Server!Verdict, Server!Moderate(verdict) PROVE Kept /\ Logged
    <2> DEFINE target == verdict.postcard
               row == postcards[target]
               new == [row EXCEPT !.status = Server!To(verdict.action),
                                  !.reason = verdict.reason]
    <2>1. postcards' = [postcards EXCEPT ![target] = new] /\ events' = Append(events, verdict)
        BY <1>3 DEF Server!Moderate
    <2>2. target \in DOMAIN postcards
        BY <1>3 DEF Server!Moderate, Server!Matches
    <2>3. new.pixels = row.pixels /\ new.palette = row.palette
        BY <1>1, <2>2 DEF Server!Postcard
    <2> HIDE DEF new
    <2>4. Kept
        BY <1>1, <2>1, <2>2, <2>3
    <2>5. Logged
        BY <1>1, <2>1 DEF Server!EventsOf
    <2>6. QED
        BY <2>4, <2>5
<1>4. CASE UNCHANGED Server!vars
    BY <1>4 DEF Server!vars
<1>5. QED
    BY <1>2, <1>3, <1>4, NextServes DEF Server!Next

(* What the page is told was created is on the wall, drawn as it was sent.  *)
Recorded == \A n \in Created :
                /\ requests[n].postcard \in DOMAIN postcards
                /\ postcards[requests[n].postcard].pixels = requests[n].draft.pixels
                /\ postcards[requests[n].postcard].palette = requests[n].draft.palette

RepublishInv == Recorded /\ RepublishedOnce

(* Steps that leave what was created alone. *)
LEMMA CreatedSame ==
    ASSUME TypeOK, RepublishInv, [Next]_vars,
           Created' = Created,
           \A n \in Created : /\ requests'[n].postcard = requests[n].postcard
                              /\ requests'[n].draft = requests[n].draft
    PROVE  RepublishInv'
<1>1. Recorded'
    BY RowsKeep, RowsStay DEF Recorded, RepublishInv
<1>2. RepublishedOnce'
    <2> SUFFICES ASSUME NEW m \in Created, NEW n \in Created,
                        requests[m].postcard + 1 = requests[n].postcard,
                        requests[m].draft.pixels = requests[n].draft.pixels,
                        requests[m].draft.palette = requests[n].draft.palette
                 PROVE  Server!EventsOf(events', requests[m].postcard) # {}
        BY DEF RepublishedOnce
    <2>1. Server!EventsOf(events, requests[m].postcard) # {}
        BY DEF RepublishedOnce, RepublishInv
    <2>2. QED
        BY <2>1, RowsKeep
<1>3. QED
    BY <1>1, <1>2 DEF RepublishInv

(* A postcard nobody moderated that is the newest is the one a submission   *)
(* is compared with.                                                        *)
LEMMA NewestCompared ==
    ASSUME TypeOK, Server!StatusMatchesLog, NEW value \in Draft,
           Len(postcards) \in DOMAIN postcards,
           Server!EventsOf(events, Len(postcards)) = {},
           postcards[Len(postcards)].pixels = value.pixels,
           postcards[Len(postcards)].palette = value.palette
    PROVE  Server!RepeatsLatest(postcards, value)
<1> DEFINE newest == Len(postcards)
<1>1. postcards \in Seq(Server!Postcard)
    BY DEF TypeOK, Server!TypeOK
<1>2. postcards[newest].status = "visible"
    BY DEF Server!StatusMatchesLog, Server!IsLastEventOf
<1>3. newest \in Server!Visible(postcards) /\ \A id \in Server!Visible(postcards) : id <= newest
    BY <1>1, <1>2 DEF Server!Visible
<1>4. QED
    BY <1>3 DEF Server!RepeatsLatest

LEMMA AcceptOnce ==
    ASSUME TypeOK, RepublishInv, Server!StatusMatchesLog, [Next]_vars,
           NEW k \in DOMAIN requests, Accept(k)
    PROVE  RepublishInv'
<1> DEFINE next == Len(postcards) + 1
           sent == requests[k].draft
<1>1. next \in 0 .. MaxPostcards /\ Answer(k, "created", next) /\ "created" \in Answers
    BY FlowAssumption DEF Accept, TypeOK, Server!TypeOK, Answers
<1>2. /\ DOMAIN requests' = DOMAIN requests
      /\ requests'[k].answer = "created" /\ requests'[k].postcard = next
      /\ \A m \in DOMAIN requests : requests'[m].draft = requests[m].draft
      /\ \A m \in DOMAIN requests : m # k => requests'[m] = requests[m]
    BY <1>1, AnswerKeeps
<1>3. k \notin Created /\ Created' = Created \cup {k}
    BY <1>1, <1>2 DEF Created, Answer
<1>4. sent \in Draft
    <2>1. requests[k] \in Request
        BY DEF TypeOK
    <2>2. QED
        BY <2>1 DEF Request
<1>5. /\ postcards \in Seq(Server!Postcard)
      /\ postcards' = Append(postcards, Server!NewPostcard(sent))
      /\ ~Server!RepeatsLatest(postcards, sent)
    BY DEF TypeOK, Server!TypeOK, Accept, Server!Publish
<1>6. next \in DOMAIN postcards' /\ postcards'[next] = Server!NewPostcard(sent)
    <2>1. Server!NewPostcard(sent) \in Server!Postcard
        BY <1>4 DEF Server!NewPostcard, Server!Postcard, Draft, NoParent, Server!NoParent
    <2>2. QED
        BY <1>5, <2>1
<1>7. Recorded'
    <2>1. ASSUME NEW n \in Created PROVE /\ requests'[n].postcard \in DOMAIN postcards'
              /\ postcards'[requests'[n].postcard].pixels = requests'[n].draft.pixels
              /\ postcards'[requests'[n].postcard].palette = requests'[n].draft.palette
        <3>1. requests'[n] = requests[n]
            BY <1>2, <1>3 DEF Created
        <3>2. QED
            BY <3>1, RowsKeep, RowsStay DEF Recorded, RepublishInv
    <2>2. /\ requests'[k].postcard \in DOMAIN postcards'
          /\ postcards'[requests'[k].postcard].pixels = requests'[k].draft.pixels
          /\ postcards'[requests'[k].postcard].palette = requests'[k].draft.palette
        BY <1>2, <1>6 DEF Server!NewPostcard
    <2>3. QED
        BY <1>3, <2>1, <2>2 DEF Recorded
<1>8. RepublishedOnce'
    <2> SUFFICES ASSUME NEW m \in Created \cup {k}, NEW n \in Created \cup {k},
                        requests'[m].postcard + 1 = requests'[n].postcard,
                        requests'[m].draft.pixels = requests'[n].draft.pixels,
                        requests'[m].draft.palette = requests'[n].draft.palette
                 PROVE  Server!EventsOf(events', requests'[m].postcard) # {}
        BY <1>3 DEF RepublishedOnce
    <2>1. \A i \in Created : requests'[i] = requests[i] /\ requests[i].postcard \in 1 .. Len(postcards)
        BY <1>2, <1>3, <1>5 DEF Created, Recorded, RepublishInv
    <2>2. m \in Created
        BY <1>2, <1>5, <2>1
    <2>3. CASE n \in Created
        <3>1. Server!EventsOf(events, requests[m].postcard) # {}
            BY <2>1, <2>2, <2>3 DEF RepublishedOnce, RepublishInv
        <3>2. QED
            BY <2>1, <2>2, <3>1, RowsKeep
    <2>4. CASE n = k
        <3>1. requests[m].postcard = Len(postcards) /\ Len(postcards) \in DOMAIN postcards
            BY <1>2, <1>5, <2>1, <2>2, <2>4
        <3>2. /\ postcards[Len(postcards)].pixels = sent.pixels
              /\ postcards[Len(postcards)].palette = sent.palette
            BY <1>2, <2>1, <2>2, <2>4, <3>1 DEF Recorded, RepublishInv
        <3>3. Server!EventsOf(events, Len(postcards)) # {}
            BY <1>4, <1>5, <3>1, <3>2, NewestCompared
        <3>4. QED
            BY <2>1, <2>2, <3>1, <3>3, RowsKeep
    <2>5. QED
        BY <2>3, <2>4
<1>9. QED
    BY <1>7, <1>8 DEF RepublishInv

LEMMA RepublishStep ==
    TypeOK /\ Server!StatusMatchesLog /\ RepublishInv /\ [Next]_vars => RepublishInv'
<1> SUFFICES ASSUME TypeOK, Server!StatusMatchesLog, RepublishInv, [Next]_vars
             PROVE  RepublishInv'
    OBVIOUS
<1>1. CASE requests' = requests
    BY <1>1, CreatedSame DEF Created
<1>2. CASE Send
    <2> DEFINE new == [draft |-> editor, answer |-> "none", postcard |-> 0, origin |-> origin]
    <2>1. new \in Request /\ new.answer # "created"
        BY FlowAssumption DEF TypeOK, Request
    <2>2. requests \in Seq(Request) /\ requests' = Append(requests, new)
        BY <1>2 DEF TypeOK, Send
    <2> HIDE DEF new
    <2>3. /\ DOMAIN requests' = DOMAIN requests \cup {Len(requests) + 1}
          /\ requests'[Len(requests) + 1] = new
          /\ \A n \in DOMAIN requests : requests'[n] = requests[n]
        BY <2>1, <2>2
    <2>4. Created' = Created /\ \A n \in Created : requests'[n] = requests[n]
        BY <2>1, <2>3 DEF Created
    <2>5. QED
        BY <2>4, CreatedSame
<1>3. ASSUME NEW n \in DOMAIN requests, Accept(n) PROVE RepublishInv'
    BY <1>3, AcceptOnce
<1>4. ASSUME NEW n \in DOMAIN requests, NEW answer \in Answers \ {"created"}, Answer(n, answer, 0)
      PROVE  RepublishInv'
    <2>1. 0 \in 0 .. MaxPostcards
        BY FlowAssumption
    <2>2. /\ DOMAIN requests' = DOMAIN requests
          /\ requests'[n].answer # "created" /\ requests[n].answer # "created"
          /\ \A m \in DOMAIN requests : m # n => requests'[m] = requests[m]
        BY <1>4, <2>1, AnswerKeeps DEF Answer
    <2>3. Created' = Created /\ \A m \in Created : requests'[m] = requests[m]
        BY <2>2 DEF Created
    <2>4. QED
        BY <2>3, CreatedSame
<1>5. QED
    BY <1>1, <1>2, <1>3, <1>4
       DEF Next, vars, PublishElsewhere, ModerateElsewhere, Edit, Load, RemixRead, RemixArrives,
           RemixFails, Handle, Limit, RejectParent, RejectRepeat, StoreFails, Answered, Lost,
           WallLoaded, Answers

(* Theorem: a publication that is repeated after its answer was lost is     *)
(* next to the first one on the wall only if that one was moderated, also   *)
(* when a request that was given up is handled late (InsertWithPalette).    *)
THEOREM NeverTwice == Spec => []RepublishedOnce
<1>1. Init => RepublishInv
    BY DEF Init, RepublishInv, Recorded, RepublishedOnce, Created
<1>2. GalleryTheorems!StatusMatchesLog => Server!StatusMatchesLog
    BY DEF Server!StatusMatchesLog, Server!EventsOf, Server!IsLastEventOf, Server!To,
           GalleryTheorems!StatusMatchesLog, GalleryTheorems!EventsOf,
           GalleryTheorems!IsLastEventOf, GalleryTheorems!To
<1>3. GalleryTheorems!Spec =>
          [](GalleryTheorems!StatusMatchesLog /\ GalleryTheorems!LogAlternates)
    BY TableAssumption, GalleryTheorems!LogCorrect, PTL
<1>4. RepublishInv => RepublishedOnce
    BY DEF RepublishInv
<1>5. QED
    BY <1>1, <1>2, <1>3, <1>4, FlowIsGallery, TypeCorrect, RepublishStep, PTL DEF Spec
=============================================================================
