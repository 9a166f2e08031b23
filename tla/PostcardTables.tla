--------------------------- MODULE PostcardTables ---------------------------
(***************************************************************************)
(* The two SQLite tables of pixelgrama and what its SQL statements do to   *)
(* them: `postcards` and `moderation_events`, as schema version 4 leaves   *)
(* them (internal/store/operations.go).                                    *)
(*                                                                         *)
(* A postcard's id is its position in the table: ids are AUTOINCREMENT, an *)
(* insert that rolls back gives its id back, and no statement of the       *)
(* program deletes a row.  A 256-cell drawing is one member of Pixels, a   *)
(* palette id with its version one member of Palettes, a moderation reason *)
(* one member of Reasons.  Alias, commit, creation time and content hash   *)
(* are not read by any statement modelled here and are left out.           *)
(***************************************************************************)
EXTENDS Naturals, Sequences

CONSTANTS Pixels,    \* drawings
          Palettes,  \* (palette id, palette version) pairs of the catalog
          Reasons,   \* normalised moderation reasons
          NoReason,  \* NULL in moderation_reason
          RequestIds \* the postcard ids a request or a command may name

(* Ids below 1 are refused before any transaction begins (store.go:83,     *)
(* moderation.go:96) and change nothing.                                   *)
ASSUME TableAssumption == /\ NoReason \notin Reasons
                          /\ RequestIds \subseteq Nat \ {0}

NoParent == 0        \* NULL in parent_id; SQLite ids start at 1

Postcard == [pixels : Pixels, palette : Palettes,
             parent : RequestIds \cup {NoParent},
             status : {"visible", "hidden"}, reason : Reasons \cup {NoReason}]

(* What a publication and a moderation action ask for. *)
Draft == [pixels : Pixels, palette : Palettes,
          parent : RequestIds \cup {NoParent}]

Verdict == [postcard : RequestIds, action : {"hide", "restore"}, reason : Reasons]

(* A row of moderation_events repeats the verdict it records. *)
Tables == [postcards : Seq(Postcard), events : Seq(Verdict)]

EmptyTables == [postcards |-> <<>>, events |-> <<>>]

-----------------------------------------------------------------------------
(* WHERE moderation_status = 'visible'. *)
Visible(rows) == {id \in DOMAIN rows : rows[id].status = "visible"}

(* The parent check of InsertWithPalette: no parent, or a visible row. *)
ParentVisible(rows, parent) == parent = NoParent \/ parent \in Visible(rows)

(* Mutant of RepeatsLatest: WHERE moderation_status = 'visible' forgotten. *)
RepeatsLastRow(rows, draft) ==
    /\ rows # <<>>
    /\ rows[Len(rows)].pixels = draft.pixels
    /\ rows[Len(rows)].palette = draft.palette

(* Mutant of RepeatsLatest: the parent is compared, too. *)
RepeatsWithParent(rows, draft) ==
    \E latest \in Visible(rows) :
        /\ \A id \in Visible(rows) : id <= latest
        /\ rows[latest].pixels = draft.pixels
        /\ rows[latest].palette = draft.palette
        /\ rows[latest].parent = draft.parent

(* ORDER BY id DESC LIMIT 1 over the visible rows, compared on the drawing *)
(* and on the palette.                                                     *)
RepeatsLatest(rows, draft) ==
    \E latest \in Visible(rows) :
        /\ \A id \in Visible(rows) : id <= latest
        /\ rows[latest].pixels = draft.pixels
        /\ rows[latest].palette = draft.palette

(* INSERT INTO postcards: the columns moderation_status and                *)
(* moderation_reason take their defaults.                                  *)
NewPostcard(draft) ==
    [pixels |-> draft.pixels, palette |-> draft.palette,
     parent |-> draft.parent, status |-> "visible", reason |-> NoReason]

WithPostcard(tables, draft) ==
    [tables EXCEPT !.postcards = Append(@, NewPostcard(draft))]

(* Mutant of To: the action is stored as the status. *)
ActionAsStatus(action) == action

(* The status a moderation action starts from and the one it sets. *)
From(action) == IF action = "hide" THEN "visible" ELSE "hidden"
To(action)   == IF action = "hide" THEN "hidden" ELSE "visible"

(* UPDATE postcards ... WHERE id = ? AND moderation_status = ?: the rows it *)
(* can match, and what it sets.                                             *)
Matches(rows, verdict) ==
    /\ verdict.postcard \in DOMAIN rows
    /\ rows[verdict.postcard].status = From(verdict.action)

WithStatus(tables, verdict) ==
    [tables EXCEPT
        !.postcards[verdict.postcard].status = To(verdict.action),
        !.postcards[verdict.postcard].reason = verdict.reason]

(* INSERT INTO moderation_events. *)
WithEvent(tables, verdict) == [tables EXCEPT !.events = Append(@, verdict)]
=============================================================================
