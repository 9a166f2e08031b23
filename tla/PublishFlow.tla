---------------------------- MODULE PublishFlow ----------------------------
(***************************************************************************)
(* Publication from the browser to the wall: publish, loadRemix and the    *)
(* draft in local storage (web/app.js) on one side, handlePostcard         *)
(* (app/server.go) over the Gallery on the other, and others who publish   *)
(* and moderate meanwhile.                                                 *)
(*                                                                         *)
(* A request travels: it is sent, handled and answered in separate steps,  *)
(* and the browser may give up, or the page be loaded again, before or     *)
(* after the server handled it.  A request that was given up may still be  *)
(* handled.  The editor is what a publication consists of, a Draft: the    *)
(* drawing, its palette and the parent of a remix (remixParentID).  Editing *)
(* is EditorHistory's; here one step draws and saves.  Alias, colour and   *)
(* tool are left out, and so are HTTP caches between the two.              *)
(***************************************************************************)
EXTENDS PostcardTables

CONSTANTS FreshPixels, FreshPalette, \* of new EditorModel({})
          NoDraft,                   \* no item under the draft's key
          MaxPostcards, MaxEvents,   \* bounds on what others do
          MaxRequests                \* bound on publications of this visitor

ASSUME FlowAssumption == /\ FreshPixels \in Pixels /\ FreshPalette \in Palettes
                         /\ NoDraft \notin Draft
                         /\ MaxPostcards \in Nat /\ MaxEvents \in Nat
                         /\ MaxRequests \in Nat

VARIABLES postcards, events,   \* the Gallery
          editor,              \* what a publication would send
          draft,               \* localStorage
          remix,               \* the postcard loadRemix fetches
          found,               \* whether the server has answered it
          url,                 \* ?remix= in the location
          publishing,          \* the lock of publish, and what it waits for
          requests,            \* POST /postcard, in the order they were sent
          origin,              \* history: the postcard the editor's drawing is a remix of
          draftOrigin          \* history: the same of the draft

Server == INSTANCE Gallery

server == <<postcards, events>>
work == <<editor, draft, origin, draftOrigin>>
fetching == <<remix, found>>
vars == <<server, work, fetching, url, publishing, requests>>

FreshDraft == [pixels |-> FreshPixels, palette |-> FreshPalette, parent |-> NoParent]

Targets == RequestIds \cup {NoParent}

Answers == {"created", "invalidParent", "duplicate", "rateLimited", "error"}

Request == [draft : Draft, answer : Answers \cup {"none"},
            postcard : 0 .. MaxPostcards, origin : Targets]

Init == /\ Server!Init
        /\ editor = FreshDraft /\ draft = NoDraft
        /\ origin = NoParent /\ draftOrigin = NoParent
        /\ remix = NoParent /\ found = FALSE
        /\ url = NoParent
        /\ publishing = "no"
        /\ requests = <<>>

-----------------------------------------------------------------------------
(* Others publish and moderate. *)
PublishElsewhere == /\ Len(postcards) < MaxPostcards
                    /\ \E other \in Draft : Server!Publish(other)
                    /\ UNCHANGED <<work, fetching, url, publishing, requests>>

ModerateElsewhere == /\ Len(events) < MaxEvents
                     /\ \E verdict \in Verdict : Server!Moderate(verdict)
                     /\ UNCHANGED <<work, fetching, url, publishing, requests>>

-----------------------------------------------------------------------------
(* persistDraft; it reads what the handler has assigned. *)
Save == draft' = editor' /\ draftOrigin' = origin'

(* The visitor draws, or chooses another palette. *)
Edit(pixels, palette) ==
    /\ editor' = [editor EXCEPT !.pixels = pixels, !.palette = palette]
    /\ UNCHANGED <<server, origin, fetching, url, publishing, requests>>
    /\ Save

(* Mutant of Restored: remixParentID is taken from the location.            *)
RestoredForTarget(target) == IF draft = NoDraft THEN [FreshDraft EXCEPT !.parent = target]
                                                ELSE [draft EXCEPT !.parent = target]

(* savedDraft, whatever the location names. *)
Restored(target) == IF draft = NoDraft THEN FreshDraft ELSE draft

(* The page is loaded, with or without a postcard to remix: the draft is    *)
(* restored and loadRemix asks.  Requests under way are given up.           *)
Load(target) ==
    /\ editor' = Restored(target)
    /\ origin' = IF draft = NoDraft THEN NoParent ELSE draftOrigin
    /\ url' = target
    /\ remix' = target /\ found' = FALSE
    /\ publishing' = "no"
    /\ UNCHANGED <<server, draft, draftOrigin, requests>>

(* GET /p/{id}.json finds visible postcards only. *)
RemixRead == /\ remix \in Visible(postcards)
             /\ ~found
             /\ found' = TRUE
             /\ UNCHANGED <<server, work, remix, url, publishing, requests>>

(* The answer arrives and replaces whatever is in the editor. *)
RemixArrives == /\ found
                /\ editor' = [pixels |-> postcards[remix].pixels,
                               palette |-> postcards[remix].palette,
                               parent |-> remix]
                /\ origin' = remix
                /\ remix' = NoParent /\ found' = FALSE
                /\ UNCHANGED <<server, url, publishing, requests>>
                /\ Save

(* No such postcard, or an error on the way: the editor keeps its drawing   *)
(* and loses its parent; the draft stays as it is.                          *)
RemixFails == /\ remix # NoParent
              /\ editor' = [editor EXCEPT !.parent = NoParent]
              /\ remix' = NoParent /\ found' = FALSE
              /\ UNCHANGED <<server, draft, origin, draftOrigin, url,
                             publishing, requests>>

-----------------------------------------------------------------------------
(* publish sends what the editor shows now. *)
Send == /\ publishing = "no"
        /\ Len(requests) < MaxRequests
        /\ publishing' = "sent"
        /\ requests' = Append(requests, [draft |-> editor, answer |-> "none",
                                         postcard |-> 0, origin |-> origin])
        /\ UNCHANGED <<server, work, fetching, url>>

Answer(n, answer, postcard) ==
    /\ requests[n].answer = "none"
    /\ requests' = [requests EXCEPT ![n].answer = answer, ![n].postcard = postcard]
    /\ UNCHANGED <<work, fetching, url, publishing>>

(* handlePostcard: the limiter first, then InsertWithPalette. *)
Accept(n) == /\ Len(postcards) < MaxPostcards
             /\ Server!Publish(requests[n].draft)
             /\ Answer(n, "created", Len(postcards) + 1)

Limit(n) == Answer(n, "rateLimited", 0) /\ UNCHANGED server

RejectParent(n) == /\ ~ParentVisible(postcards, requests[n].draft.parent)
                   /\ Answer(n, "invalidParent", 0)
                   /\ UNCHANGED server

RejectRepeat(n) == /\ ParentVisible(postcards, requests[n].draft.parent)
                   /\ RepeatsLatest(postcards, requests[n].draft)
                   /\ Answer(n, "duplicate", 0)
                   /\ UNCHANGED server

StoreFails(n) == Answer(n, "error", 0) /\ UNCHANGED server

Handle(n) == Accept(n) \/ Limit(n) \/ RejectParent(n) \/ RejectRepeat(n) \/ StoreFails(n)

-----------------------------------------------------------------------------
(* The request publish waits for is the last one that was sent. *)
Latest == requests[Len(requests)]

(* The drawing is on the wall: the draft goes, the drawing stays. *)
Succeeded == /\ draft' = NoDraft /\ draftOrigin' = NoParent
             /\ editor' = [editor EXCEPT !.parent = NoParent]
             /\ origin' = NoParent
             /\ url' = NoParent
             /\ publishing' = "wall"

Refused == publishing' = "no" /\ UNCHANGED <<work, url>>

(* Mutant of Respond: response.ok is not looked at. *)
RespondAlike == Succeeded

Respond == IF Latest.answer = "created" THEN Succeeded ELSE Refused

Answered == /\ publishing = "sent"
            /\ Latest.answer # "none"
            /\ Respond
            /\ UNCHANGED <<server, fetching, requests>>

(* networkError: the request or its answer is lost. *)
Lost == /\ publishing = "sent"
        /\ Refused
        /\ UNCHANGED <<server, fetching, requests>>

(* await loadWall(true) is over, and the lock is released. *)
WallLoaded == /\ publishing = "wall"
              /\ publishing' = "no"
              /\ UNCHANGED <<server, work, fetching, url, requests>>

Next == \/ PublishElsewhere \/ ModerateElsewhere
        \/ \E pixels \in Pixels, palette \in Palettes : Edit(pixels, palette)
        \/ \E target \in Targets : Load(target)
        \/ RemixRead \/ RemixArrives \/ RemixFails
        \/ Send
        \/ \E n \in DOMAIN requests : Handle(n)
        \/ Answered \/ Lost \/ WallLoaded

Spec == Init /\ [][Next]_vars

-----------------------------------------------------------------------------
(* Types; an answer waits to be drawn only if it was asked for, and publish *)
(* waits only for a request.                                                *)
TypeOK == /\ Server!TypeOK
          /\ editor \in Draft
          /\ draft \in Draft \cup {NoDraft}
          /\ remix \in Targets /\ found \in BOOLEAN
          /\ found => remix \in DOMAIN postcards
          /\ url \in Targets
          /\ publishing \in {"no", "sent", "wall"}
          /\ requests \in Seq(Request)
          /\ publishing # "no" => requests # <<>>
          /\ origin \in Targets /\ draftOrigin \in Targets

Created == {n \in DOMAIN requests : requests[n].answer = "created"}

(* Whatever remixes arrive or fail while drafts are restored and requests   *)
(* are on their way: a publication that names a parent is a remix of it.    *)
(* The parent may be missing, it is never another one.                      *)
NeverWrongParent ==
    \A n \in DOMAIN requests :
        requests[n].draft.parent \in {NoParent, requests[n].origin}

(* A visitor who publishes again because the answer was lost is on the wall *)
(* twice only if another postcard came between, or the first was moderated: *)
(* the check in InsertWithPalette is all there is against it.               *)
RepublishedOnce ==
    \A m, n \in Created :
        LET first == requests[m].postcard
            second == requests[n].postcard
        IN  /\ first + 1 = second
            /\ requests[m].draft.pixels = requests[n].draft.pixels
            /\ requests[m].draft.palette = requests[n].draft.palette
            => Server!EventsOf(events, first) # {}

(* A draft is given up only for a publication that was accepted: refused,   *)
(* failed and lost ones leave it (publish returns before storageRemove).    *)
DraftOutlivesFailure ==
    [][draft # NoDraft /\ draft' = NoDraft =>
            publishing = "sent" /\ Latest.answer = "created"]_vars

(* A remix is published with its parent (README.md:67: "preserves both      *)
(* palette and parent ID in the draft and publication payload").  The code  *)
(* does not keep this.                                                      *)
RemixKeepsParent == \A n \in DOMAIN requests : requests[n].draft.parent = requests[n].origin
=============================================================================
