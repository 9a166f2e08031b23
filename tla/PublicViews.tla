---------------------------- MODULE PublicViews ----------------------------
(***************************************************************************)
(* What the web server derives from the postcards on request: the weekly   *)
(* mosaic, the public statistics, a shared postcard and a random one.      *)
(* Nothing of it is stored.                                                *)
(*                                                                         *)
(* A handler of the web server reads the clock before it takes the one     *)
(* database connection (SetMaxOpenConns(1)), the connection serves one     *)
(* transaction at a time, and the statements of a read-only transaction    *)
(* all read the state the first of them found, whatever `pixelgrama admin` *)
(* commits in between from its own process.                                *)
(*                                                                         *)
(* The clock counts ticks, TicksPerSecond of them a second.  created_at is *)
(* compared as text, in RFC3339Nano, which leaves out a fraction that is   *)
(* zero and the trailing zeros of any other.                               *)
(***************************************************************************)
EXTENDS Sequences, FiniteSetsExt, NewestRows

CONSTANTS Handlers,        \* requests the server can work on at once
          Palettes,        \* palettes of the closed catalog
          TicksPerSecond,
          SecondsPerWeek,
          MosaicSize,      \* weeklyMaxPostcards, 64
          StartTime,       \* the clock when the server starts
          MaxTime,         \* bound of the model on the clock
          Named,           \* bound of the model: the postcards that remixes and share links name
          MaxPostcards,    \* bound of the model on publications
          MaxChanges       \* bound of the model on all committed changes

ASSUME ViewAssumption ==
    /\ IsFiniteSet(Palettes) /\ Named \subseteq Nat
    /\ TicksPerSecond \in Nat \ {0}
    /\ SecondsPerWeek \in Nat \ {0}
    /\ MosaicSize \in Nat \ {0}
    /\ StartTime \in Nat

VARIABLES
    now,      \* the server's clock
    history,  \* the committed states of the postcards table, oldest first
    handler,  \* the request each handler works on
    answer    \* the postcards' answer that the last step gave, or Idle

vars == <<now, history, handler, answer>>

Rows == history[Len(history)]
NoParent == 0

Row == [at : Nat, palette : Palettes, parent : Nat, status : {"visible", "hidden"}]

(* A tile of the mosaic: the postcard's id and what its content hash names. *)
Tile == [id : Nat, content : Palettes]
Tag == [week : Nat, total : Nat, tiles : Seq(Tile)]

Phases == {"idle", "received", "timed", "counted", "weekCounted", "remixCounted"}
Routes == {"none", "postcard", "week", "stats", "share", "random", "static", "elsewhere"}

(* A request and the parts of its answer that are there so far: `seen` is  *)
(* how much of the history was committed when it arrived (the properties   *)
(* ask for it), `at` what s.now() returned, or the start of its week,      *)
(* `snapshot` the state that the request's transaction reads, `match`      *)
(* If-None-Match; status 0 is no answer yet.                               *)
Request == [route : Routes, phase : Phases, seen : Nat, at : Nat, snapshot : Nat,
            id : Nat, match : SUBSET Tag, status : {0, 200, 304},
            total : Nat, thisWeek : Nat, remixes : Nat,
            byPalette : [Palettes -> Nat], items : Seq(Nat)]

Idle == [route |-> "none", phase |-> "idle", seen |-> 1, at |-> 0, snapshot |-> 1,
         id |-> 0, match |-> {}, status |-> 0, total |-> 0, thisWeek |-> 0,
         remixes |-> 0, byPalette |-> [p \in Palettes |-> 0], items |-> <<>>]

Init == /\ now = StartTime
        /\ history = << <<>> >>
        /\ handler = [h \in Handlers |-> Idle]
        /\ answer = Idle

Silent == answer' = Idle

-----------------------------------------------------------------------------
(* Weeks. *)
Week == TicksPerSecond * SecondsPerWeek

(* isoWeekFor: the week's key, and with it its first tick. *)
WeekOf(time) == time \div Week
Start(week) == Week * week

Second(time) == time \div TicksPerSecond
OnTheSecond(time) == time % TicksPerSecond = 0

(* created_at >= boundary as SQLite compares the two texts, for a boundary *)
(* on the second: in one second, "00Z" comes after every "00.5Z".          *)
NotBefore(time, boundary) ==
    \/ Second(time) > Second(boundary)
    \/ Second(time) = Second(boundary) /\ OnTheSecond(time)

(* created_at >= ? AND created_at < ?. *)
InWeek(time, week) ==
    NotBefore(time, Start(week)) /\ ~NotBefore(time, Start(week + 1))

-----------------------------------------------------------------------------
(* The queries, over one state of the table. *)
Visible(rows) == {id \in DOMAIN rows : rows[id].status = "visible"}

OfWeek(rows, week) == {id \in Visible(rows) : InWeek(rows[id].at, week)}

Reversed(s) == [i \in DOMAIN s |-> s[Len(s) + 1 - i]]

(* Mutant of Mosaic: the rows are left newest first. *)
MosaicNewestFirst(rows, week) == Descending(Newest(OfWeek(rows, week), MosaicSize))

(* The latest MosaicSize of the week, turned round. *)
Mosaic(rows, week) == Reversed(Descending(Newest(OfWeek(rows, week), MosaicSize)))

(* Mutant of Remixes: the parent may be hidden. *)
RemixesOfAny(rows) == {id \in Visible(rows) : rows[id].parent # NoParent}

(* JOIN postcards AS parent, both of them visible. *)
Remixes(rows) == {id \in Visible(rows) : rows[id].parent \in Visible(rows)}

(* Mutant of ByPalette: only the groups that the query returned. *)
GroupsOnly(rows) ==
    [p \in {rows[id].palette : id \in Visible(rows)} |->
        Cardinality({id \in Visible(rows) : rows[id].palette = p})]

(* GROUP BY palette, laid out over the catalog. *)
ByPalette(rows) ==
    [p \in Palettes |-> Cardinality({id \in Visible(rows) : rows[id].palette = p})]

(* What renderWeeklyPNG draws for these items. *)
Picture(rows, items) == [i \in DOMAIN items |-> rows[items[i]].palette]

(* Mutant of ETag: only the key and the count are hashed. *)
ETagOfCount(rows, week) ==
    [week |-> week, total |-> Cardinality(OfWeek(rows, week)), tiles |-> <<>>]

ETag(rows, week) ==
    LET items == Mosaic(rows, week)
    IN [week |-> week, total |-> Cardinality(OfWeek(rows, week)),
        tiles |-> [i \in DOMAIN items |-> [id |-> items[i],
                                           content |-> rows[items[i]].palette]]]

-----------------------------------------------------------------------------
(* ServeHTTP, and the clock. *)
Known == {"postcard", "week", "stats", "share", "random", "static"}
Method(route) == IF route = "postcard" THEN "POST" ELSE "GET"
AsksForWeek == {"week", "stats"}

Respond(h, r, status) ==
    /\ answer' = [r EXCEPT !.status = status, !.phase = "idle"]
    /\ handler' = [handler EXCEPT ![h] = Idle]

(* An answer with nothing of the postcards in it: an error, a static page. *)
Plain(h) == handler' = [handler EXCEPT ![h] = Idle] /\ Silent

(* The request finds its handler, by path and then by method; a share path *)
(* must name an id from 1 on.  The handlers of the mosaic and of the       *)
(* statistics begin with isoWeekFor(s.now()).                              *)
Receive(h, route, method, id) ==
    /\ handler[h].phase = "idle"
    /\ LET r == [Idle EXCEPT !.route = route, !.phase = "received", !.id = id,
                             !.seen = Len(history)]
       IN \/ /\ route \in {"postcard", "share", "random"} /\ method = Method(route)
             /\ route = "share" => id > 0
             /\ handler' = [handler EXCEPT ![h] = r]
             /\ Silent
          \/ /\ route \in AsksForWeek /\ method = "GET"
             /\ handler' = [handler EXCEPT ![h] = [r EXCEPT !.phase = "timed",
                                                           !.at = Start(WeekOf(now))]]
             /\ Silent
          \/ route = "static" /\ method = "GET" /\ Plain(h)
          \/ route \in Known /\ method # Method(route) /\ Plain(h)
          \/ /\ route \notin Known \/ (route = "share" /\ method = "GET" /\ id = 0)
             /\ Plain(h)
    /\ UNCHANGED <<now, history>>

(* Mutant of Clock: the time is stored without its date. *)
ClockInWeek(h) == now % Week

Clock(h) == now

(* handlePostcard accepts the body, and evaluates s.now() as an argument of *)
(* the call into the store.                                                 *)
ReadClock(h) ==
    /\ handler[h].route = "postcard" /\ handler[h].phase = "received"
    /\ handler' = [handler EXCEPT ![h].phase = "timed", ![h].at = Clock(h)]
    /\ Silent /\ UNCHANGED <<now, history>>

(* BeginTx gets the connection: no transaction of this server is open. *)
ConnectionFree ==
    \A h \in Handlers : handler[h].phase \notin {"counted", "weekCounted", "remixCounted"}

(* Mutant of Snapshot: the queries run on s.db, each by itself. *)
EveryQueryAlone(h) == Len(history)

(* The state a statement of h reads: fixed by the first one. *)
Snapshot(h) == IF handler[h].phase \in {"received", "timed"} THEN Len(history)
                                                             ELSE handler[h].snapshot

RowsOf(h) == history[Snapshot(h)]

(* A statement in the middle of h's transaction. *)
Continue(h, r, phase) ==
    /\ handler' = [handler EXCEPT ![h] = [r EXCEPT !.phase = phase,
                                                   !.snapshot = Snapshot(h)]]
    /\ Silent

-----------------------------------------------------------------------------
(* InsertWithPalette, as one step (PostcardStore has its statements): the  *)
(* row's created_at is the time the handler came with.  Drawings are left  *)
(* out, and with them ErrDuplicate: more is published than the store lets. *)
Publish(h, palette, parent) ==
    /\ handler[h].route = "postcard" /\ handler[h].phase = "timed"
    /\ ConnectionFree
    /\ Len(Rows) < MaxPostcards /\ Len(history) <= MaxChanges
    /\ parent \in Visible(Rows) \cup {NoParent}
    /\ history' = Append(history, Append(Rows,
                     [at |-> handler[h].at, palette |-> palette, parent |-> parent,
                      status |-> "visible"]))
    /\ Respond(h, handler[h], 200)
    /\ UNCHANGED now

(* Hide or Restore, committed by another process. *)
Moderate(id) ==
    /\ id \in DOMAIN Rows /\ Len(history) <= MaxChanges
    /\ history' = Append(history, [Rows EXCEPT ![id].status =
                     IF @ = "visible" THEN "hidden" ELSE "visible"])
    /\ Silent /\ UNCHANGED <<now, handler>>

(* PublicStats: four queries in one read-only transaction. *)
CountAll(h) ==
    /\ handler[h].route = "stats" /\ handler[h].phase = "timed"
    /\ ConnectionFree
    /\ Continue(h, [handler[h] EXCEPT !.total = Cardinality(Visible(RowsOf(h)))], "counted")

CountThisWeek(h) ==
    /\ handler[h].route = "stats" /\ handler[h].phase = "counted"
    /\ Continue(h, [handler[h] EXCEPT !.thisWeek =
                    Cardinality(OfWeek(RowsOf(h), WeekOf(handler[h].at)))], "weekCounted")

CountRemixes(h) ==
    /\ handler[h].phase = "weekCounted"
    /\ Continue(h, [handler[h] EXCEPT !.remixes = Cardinality(Remixes(RowsOf(h)))],
             "remixCounted")

GroupPalettes(h) ==
    /\ handler[h].phase = "remixCounted"
    /\ Respond(h, [handler[h] EXCEPT !.byPalette = ByPalette(RowsOf(h)),
                                     !.snapshot = Snapshot(h)], 200)

(* ListPublicBetween: the count of the week, then its latest postcards. *)
CountWeek(h) ==
    /\ handler[h].route = "week" /\ handler[h].phase = "timed"
    /\ ConnectionFree
    /\ Continue(h, [handler[h] EXCEPT !.total =
                    Cardinality(OfWeek(RowsOf(h), WeekOf(handler[h].at)))], "counted")

(* The latest postcards of the week, and handleWeekly: 304 if the client   *)
(* asks for the image and its If-None-Match is the ETag of this mosaic, or *)
(* else the mosaic.                                                        *)
ServeWeek(h, format, match) ==
    /\ handler[h].route = "week" /\ handler[h].phase = "counted"
    /\ LET week == WeekOf(handler[h].at)
           r    == [handler[h] EXCEPT !.items = Mosaic(RowsOf(h), week),
                                      !.snapshot = Snapshot(h), !.match = match]
       IN \/ /\ format = "png" /\ ETag(RowsOf(h), week) \in match
             /\ Respond(h, r, 304)
          \/ /\ format = "html" \/ ETag(RowsOf(h), week) \notin match
             /\ Respond(h, r, 200)

(* The If-None-Match a client may send: none, or the ETag of any mosaic    *)
(* there was before its request.                                           *)
Matches(h) == {{}} \cup {{ETag(history[v], week)} : v \in 1 .. handler[h].seen,
                                                   week \in 0 .. WeekOf(now)}

(* GetPublic and handleShare, in any of its three formats. *)
Share(h) ==
    /\ handler[h].route = "share" /\ handler[h].phase = "received"
    /\ ConnectionFree
    /\ LET r == [handler[h] EXCEPT !.snapshot = Snapshot(h)]
       IN \/ r.id \in Visible(RowsOf(h)) /\ Respond(h, [r EXCEPT !.items = <<r.id>>], 200)
          \/ r.id \notin Visible(RowsOf(h)) /\ Plain(h)

(* RandomPublic and handleRandom: a redirect to a share path. *)
Random(h) ==
    /\ handler[h].route = "random" /\ handler[h].phase = "received"
    /\ ConnectionFree
    /\ LET r == [handler[h] EXCEPT !.snapshot = Snapshot(h)]
       IN \/ \E id \in Visible(RowsOf(h)) : Respond(h, [r EXCEPT !.items = <<id>>], 200)
          \/ Visible(RowsOf(h)) = {} /\ Plain(h)

(* A statement fails or the client is gone: Rollback, and the handler's    *)
(* storage_error.                                                          *)
Fail(h) ==
    /\ handler[h].phase # "idle"
    /\ Plain(h)

Tick == now < MaxTime /\ now' = now + 1 /\ Silent /\ UNCHANGED <<history, handler>>

Query(h) ==
    /\ \/ CountAll(h) \/ CountThisWeek(h) \/ CountRemixes(h) \/ GroupPalettes(h)
       \/ CountWeek(h) \/ Share(h) \/ Random(h) \/ Fail(h)
       \/ \E format \in {"png", "html"}, match \in Matches(h) : ServeWeek(h, format, match)
    /\ UNCHANGED <<now, history>>

Next ==
    \/ \E h \in Handlers :
          \/ \E route \in Known : Receive(h, route, Method(route), 0)
          \/ Receive(h, "postcard", "GET", 0) \/ Receive(h, "elsewhere", "GET", 0)
          \/ \E id \in Named : Receive(h, "share", "GET", id)
          \/ ReadClock(h)
          \/ \E palette \in Palettes, parent \in Named \cup {NoParent} :
                Publish(h, palette, parent)
          \/ Query(h)
    \/ \E id \in 1 .. MaxPostcards : Moderate(id)
    \/ Tick

Spec == Init /\ [][Next]_vars

-----------------------------------------------------------------------------
TypeOK ==
    /\ now \in Nat
    /\ history \in Seq(Seq(Row)) /\ history # <<>>
    /\ handler \in [Handlers -> Request]
    /\ answer \in Request

(* Every answer is computed from ONE committed state, and from none that   *)
(* was out of date when its request arrived: the numbers of a statistics   *)
(* answer belong together, and what was hidden before a request arrived is *)
(* not in its answer.                                                      *)
Describes(rows) ==
    /\ answer.route = "stats" =>
          /\ answer.total = Cardinality(Visible(rows))
          /\ answer.thisWeek = Cardinality(OfWeek(rows, WeekOf(answer.at)))
          /\ answer.remixes = Cardinality(Remixes(rows))
          /\ answer.byPalette = ByPalette(rows)
    /\ answer.route = "week" =>
          /\ answer.total = Cardinality(OfWeek(rows, WeekOf(answer.at)))
          /\ answer.items = Mosaic(rows, WeekOf(answer.at))
    /\ answer.route \in {"share", "random"} =>
          \A i \in DOMAIN answer.items : answer.items[i] \in Visible(rows)

AnswersAreCurrent ==
    answer.status \in {200, 304} =>
        \E v \in answer.seen .. Len(history) : Describes(history[v])

(* The numbers of a statistics answer fit each other: the palettes of the  *)
(* catalog account for every public postcard, the week has no more of them *)
(* than there are, and the oldest is a remix of none.                      *)
StatsAddUp ==
    answer.route = "stats" /\ answer.status = 200 =>
        /\ MapThenSumSet(LAMBDA p : answer.byPalette[p], Palettes) = answer.total
        /\ answer.thisWeek <= answer.total
        /\ answer.total > 0 => answer.remixes < answer.total

(* The week a postcard made at this time counts for: its own, unless it    *)
(* was made within the first second but not on it; then the week before.   *)
CountsFor(time, week) ==
    IF Second(time) = Second(Start(WeekOf(time))) /\ ~OnTheSecond(time)
        THEN WeekOf(time) = week + 1
        ELSE WeekOf(time) = week

(* README.md:63, as far as it holds: the mosaic shows, by their ids, the   *)
(* latest MosaicSize of the public postcards that count for the week.      *)
MosaicIsLatestOfWeek ==
    answer.route = "week" /\ answer.status \in {200, 304} =>
        LET rows   == history[answer.snapshot]
            items  == answer.items
            shown  == {items[i] : i \in DOMAIN items}
            public == {id \in Visible(rows) : CountsFor(rows[id].at, WeekOf(answer.at))}
        IN /\ \A i, j \in DOMAIN items : i < j => items[i] < items[j]
           /\ shown \subseteq public
           /\ \A id \in public \ shown :
                 Len(items) = MosaicSize /\ \A other \in shown : id < other

(* README.md:63: the mosaic "selects the latest 64 visible postcards" of   *)
(* "the current ISO week in UTC".                                          *)
MosaicOmitsNone ==
    answer.route = "week" /\ answer.status \in {200, 304} =>
        LET rows == history[answer.snapshot]
        IN \A id \in Visible(rows) :
              WeekOf(rows[id].at) = WeekOf(answer.at) =>
                 \/ \E i \in DOMAIN answer.items : answer.items[i] = id
                 \/ Len(answer.items) = MosaicSize

(* 304 Not Modified is answered only to a client that has the picture the  *)
(* mosaic has now, whichever state and week its picture is of: no          *)
(* publication, hide, restore or new week is missed.                       *)
NotModifiedIsCurrent ==
    answer.status = 304 =>
        \A v \in DOMAIN history, week \in 0 .. WeekOf(now) :
            ETag(history[v], week) \in answer.match =>
                Picture(history[v], Mosaic(history[v], week)) =
                    Picture(history[answer.snapshot], answer.items)

(* The clock is read outside the transaction that assigns the id, so a     *)
(* later postcard may have an earlier created_at, and the mosaic, which is *)
(* in the order of ids, is then not in the "chronological order" of        *)
(* README.md:63.  But only if the two requests overlapped: what was        *)
(* committed when a request arrived is not younger.                        *)
RealTimeOrder ==
    answer.route = "postcard" /\ answer.status = 200 =>
        \A older \in DOMAIN history[answer.seen] : Rows[older].at <= Rows[Len(Rows)].at
=============================================================================
