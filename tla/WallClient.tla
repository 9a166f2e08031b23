----------------------------- MODULE WallClient -----------------------------
(***************************************************************************)
(* The wall in the browser: loadWall (web/app.js) asks for pages, the      *)
(* server answers each from one snapshot (Store.ListBefore), and the       *)
(* postcards of an answer are appended when it arrives.  Meanwhile other   *)
(* visitors publish and administrators hide and restore.                   *)
(*                                                                         *)
(* Nothing keeps loadWall from being called while an earlier call waits    *)
(* for its answer: on page load, on a change of language, after the        *)
(* visitor's publication (all reset the wall), and by the load-more button.*)
(***************************************************************************)
EXTENDS SequencesExt, NewestRows

CONSTANTS Calls,        \* calls of loadWall that may wait at once
          PageSize,     \* 24 in the code
          NoCursor,     \* null in nextBeforeID
          NoPage,       \* a call whose answer was not read yet
          MaxOnWall,    \* bound on publications
          MaxVerdicts   \* bound on hiding and restoring

ASSUME ClientAssumption == /\ PageSize \in Nat \ {0}
                           /\ MaxOnWall \in Nat /\ MaxVerdicts \in Nat
                           /\ NoCursor \notin Nat

Ids == 1 .. MaxOnWall
Cursor == Ids \cup {NoCursor}
Page == [postcards : Seq(Ids), next : Cursor]

ASSUME PageAssumption == NoPage \notin Page

(* A call of loadWall: not under way, or waiting for the page before some   *)
(* cursor, which the server may have read already.                          *)
NotAsked == [waits |-> FALSE, before |-> NoCursor, page |-> NoPage]

VARIABLES newest,      \* the newest postcard's id, 0 if there is none
          visible,     \* ids of the visible postcards
          verdicts,    \* how often postcards were hidden or restored
          calls,       \* the calls of loadWall
          rendered,    \* the postcards on the page, from the top
          cursor,      \* nextBeforeID
          status,      \* currentWallStatus
          moreHidden,  \* loadMoreNode.hidden
          steady,      \* history: visible since the first page was read
          overlap      \* history: what a call found waiting since a clean reset

(* What the server holds, and others change. *)
Wall == INSTANCE PublicWall

server == <<newest, visible, verdicts>>
page == <<rendered, cursor, status, moreHidden>>
allVars == <<server, calls, page, steady, overlap>>

ClientInit == /\ Wall!Init
              /\ verdicts = 0
              /\ calls = [call \in Calls |-> NotAsked]
              /\ rendered = <<>> /\ cursor = NoCursor
              /\ status = "loading" /\ moreHidden = FALSE
              /\ steady = {}
              /\ overlap = "none"

-----------------------------------------------------------------------------
(* Others publish and moderate. *)
PublishElsewhere == /\ newest < MaxOnWall
                    /\ Wall!Publish
                    /\ UNCHANGED <<verdicts, calls, page, steady, overlap>>

ModerateElsewhere ==
    /\ verdicts < MaxVerdicts
    /\ verdicts' = verdicts + 1
    /\ \E id \in 1 .. newest : Wall!Hide(id) \/ Wall!Restore(id)
    /\ steady' = steady \cap visible'
    /\ UNCHANGED <<calls, page, overlap>>

(* Mutant of ListBefore: the cursor is the first postcard left out. *)
ListPast(before) ==
    LET older == {id \in visible : before = NoCursor \/ id < before}
        items == Descending(Newest(older, PageSize + 1))
    IN  IF Len(items) > PageSize
        THEN [postcards |-> SubSeq(items, 1, PageSize), next |-> items[PageSize + 1]]
        ELSE [postcards |-> items, next |-> NoCursor]

(* Mutant of ListBefore: AND id < ? forgotten. *)
ListNewest(before) ==
    LET items == Descending(Newest(visible, PageSize + 1))
    IN  IF Len(items) > PageSize
        THEN [postcards |-> SubSeq(items, 1, PageSize), next |-> items[PageSize]]
        ELSE [postcards |-> items, next |-> NoCursor]

(* Mutant of ListBefore: 0 instead of no cursor after the last page. *)
ListZero(before) ==
    LET older == {id \in visible : before = NoCursor \/ id < before}
        items == Descending(Newest(older, PageSize + 1))
    IN  IF Len(items) > PageSize
        THEN [postcards |-> SubSeq(items, 1, PageSize), next |-> items[PageSize]]
        ELSE [postcards |-> items, next |-> 0]

(* SELECT the newest visible postcards before the cursor, newest first, and *)
(* one more than fits to know whether to send a cursor.                     *)
ListBefore(before) ==
    LET older == {id \in visible : before = NoCursor \/ id < before}
        items == Descending(Newest(older, PageSize + 1))
    IN  IF Len(items) > PageSize
        THEN [postcards |-> SubSeq(items, 1, PageSize), next |-> items[PageSize]]
        ELSE [postcards |-> items, next |-> NoCursor]

(* The server reads the page a call waits for. *)
ReadPage(call) ==
    /\ calls[call].waits
    /\ calls[call].page = NoPage
    /\ calls' = [calls EXCEPT ![call].page = ListBefore(calls[call].before)]
    /\ steady' = IF calls[call].before = NoCursor THEN visible ELSE steady
    /\ UNCHANGED <<server, page, overlap>>

-----------------------------------------------------------------------------
Waiting == {call \in Calls : calls[call].waits}

Ask(call, before) ==
    /\ call \notin Waiting
    /\ calls' = [calls EXCEPT ![call] = [waits |-> TRUE, before |-> before,
                                         page |-> NoPage]]
    /\ status' = "loading"

(* loadWall(true): page load, a change of language, after publish. *)
LoadFirst(call) ==
    /\ rendered' = <<>>
    /\ cursor' = NoCursor
    /\ Ask(call, NoCursor)
    /\ overlap' = IF Waiting = {} THEN "none" ELSE "reset"
    /\ UNCHANGED <<server, moreHidden, steady>>

(* The load-more button: loadWall(false) if there is a cursor. *)
LoadMore(call) ==
    /\ ~moreHidden
    /\ cursor # NoCursor
    /\ Ask(call, cursor)
    /\ overlap' = IF Waiting = {} \/ overlap = "reset" THEN overlap ELSE "more"
    /\ UNCHANGED <<server, rendered, cursor, moreHidden, steady>>

(* What is on the wall already is skipped. *)
drawPostcard(wall, id) == IF id \in Range(wall) THEN wall ELSE Append(wall, id)

Draw(answer) ==
    /\ rendered' = FoldLeft(drawPostcard, rendered, answer.postcards)
    /\ cursor' = answer.next
    /\ status' = IF rendered' = <<>> THEN "empty" ELSE "loaded"
    /\ moreHidden' = (cursor' = NoCursor)

(* The answer arrives, whatever has been asked since. *)
Answered(call) ==
    /\ calls[call].page # NoPage
    /\ Draw(calls[call].page)
    /\ calls' = [calls EXCEPT ![call] = NotAsked]
    /\ UNCHANGED <<server, steady, overlap>>

(* A network or server error. *)
Failed(call) ==
    /\ call \in Waiting
    /\ calls' = [calls EXCEPT ![call] = NotAsked]
    /\ status' = "wallError"
    /\ moreHidden' = TRUE
    /\ UNCHANGED <<server, rendered, cursor, steady, overlap>>

ClientNext == \/ PublishElsewhere
              \/ ModerateElsewhere
              \/ \E call \in Calls : \/ LoadFirst(call) \/ LoadMore(call)
                                     \/ ReadPage(call)
                                     \/ Answered(call) \/ Failed(call)

ClientSpec == ClientInit /\ [][ClientNext]_allVars

-----------------------------------------------------------------------------
ClientTypeOK ==
    /\ newest \in 0 .. MaxOnWall
    /\ visible \subseteq 1 .. newest
    /\ verdicts \in 0 .. MaxVerdicts
    /\ calls \in [Calls -> [waits : BOOLEAN, before : Cursor,
                            page : Page \cup {NoPage}]]
    /\ \A call \in Calls \ Waiting : calls[call] = NotAsked
    /\ rendered \in Seq(Ids)
    /\ cursor \in Cursor
    /\ status \in {"loading", "loaded", "empty", "wallError"}
    /\ moreHidden \in BOOLEAN
    /\ steady \subseteq visible
    /\ overlap \in {"none", "more", "reset"}

(* The cursor always is a postcard that is shown, also after the answer of  *)
(* a call that a reset overtook: load more continues one of the pages that  *)
(* are on this wall.                                                        *)
CursorRendered == cursor # NoCursor => cursor \in Range(rendered)

(* No postcard is on the wall twice, whatever answers overlap, and the wall *)
(* is newest first as long as no two calls do, though others publish, hide  *)
(* and restore between the pages (README.md:39).                            *)
NewestFirst ==
    /\ IsInjective(rendered)
    /\ overlap = "none" => IsSorted(rendered, >)

(* Nothing between the top and the cursor is missing that was there since   *)
(* the first page was read; without a cursor, nothing at all.  Two clicks   *)
(* on load more do no harm.                                                 *)
FirstPageShown == rendered # <<>> \/ status = "empty"

Gapless ==
    FirstPageShown =>
        \A id \in steady :
            cursor = NoCursor \/ id >= cursor => id \in Range(rendered)

NoGap == overlap # "reset" => Gapless
=============================================================================
