---------------------------- MODULE ReadingState ----------------------------
(***************************************************************************)
(* One reader's place in one book, per format: db/src/progress (the upsert *)
(* with its newest-wins rule, the forward-progress ledger, the derived     *)
(* halves attached off the request path) and db/src/read_status, with the  *)
(* handlers that call them: POST /api/progress (web and iOS), the Kobo     *)
(* state PUT, and the two KOReader pushes.                                 *)
(*                                                                         *)
(* A place is a number: the percent of an epub, how far into an audiobook. *)
(* A CFI, a KoboSpan and a percent taken at one place are that number, so  *)
(* a derivation copies it. Every write runs in one BEGIN IMMEDIATE         *)
(* transaction and is one action; the steps of a derivation are separate.  *)
(* A client may deliver any write any number of times, late and in any     *)
(* order, which is what its outbox and its retries do.                     *)
(***************************************************************************)
EXTENDS Integers, FiniteSets, FiniteSetsExt

CONSTANTS
    Formats,          \* the formats this book is read in
    Places,           \* positions, as numbers
    Deep,             \* audio places from here on are past the teardown cutoff
    IDLE_GAP_SECS,    \* the longest pause inside one sitting
    Files,            \* the audio files of the book
    Chooses,          \* bound: the read statuses the reader chooses from
    MaxTime,          \* bound: seconds of the clock
    MaxAhead,         \* bound: how far a device clock runs ahead
    MaxMessages,      \* bound: writes, replays included, and restarts
    MaxCrashes,       \* bound: server restarts
    None

ASSUME ReadingConstants ==
    /\ Formats \subseteq {"epub", "audio"}
    /\ Places \subseteq Nat /\ 0 \in Places
    /\ Deep \in Nat \ {0}
    /\ Chooses \subseteq {"unread", "reading", "finished"}
    /\ IDLE_GAP_SECS \in Nat
    /\ MaxTime \in Nat /\ MaxAhead \in Nat
    /\ MaxMessages \in Nat /\ MaxCrashes \in Nat
    /\ None \notin Places \cup Files \cup Nat

Time == 0 .. MaxTime
MaybePlace == Places \cup {None}
MaybeFile == Files \cup {None}
Status == {"unread", "reading", "finished"}

VARIABLES
    now,         \* the server's clock, in seconds
    row,         \* reading_progress: the stored position per format
    mark,        \* reading_progress_marks: the sitting's high-water mark
    credited,    \* reading_progress_slots: percent gained, over all slots
    status,      \* book_read_status of the book
    spawning,    \* accepted POSTs that have not reached their spawn call
    walk,        \* the percent derivation in flight, or None
    enrich,      \* the Kobo span derivation of a sync response, or None
    delivered,   \* history: the position writes taken in, with their stamps
    heard,       \* history: the observations the ledger was given
    chosen,      \* history: the newest status the reader set, or None
    messages,    \* writes taken in and restarts so far
    crashes      \* restarts so far

derivations == <<spawning, walk, enrich>>
budgets == <<messages, crashes>>
vars == <<now, row, mark, credited, status, derivations, delivered, heard,
          chosen, budgets>>

(* The positions the surfaces send. *)
Position ==
    [cfi : MaybePlace, percent : MaybePlace, span : MaybePlace,
     audio : MaybePlace, file : MaybeFile]

EpubAt(p, cfi, percent, span) ==
    [cfi |-> IF cfi THEN p ELSE None, percent |-> IF percent THEN p ELSE None,
     span |-> IF span THEN p ELSE None, audio |-> None, file |-> None]

(* Web and iOS: an epub place with a CFI, a percent or both; an audio place *)
(* has seconds and perhaps a file, and validate refuses it a percent.       *)
posted(f) ==
    IF f = "epub"
    THEN {EpubAt(p, has[1], has[2], FALSE) :
             p \in Places,
             has \in {<<TRUE, FALSE>>, <<FALSE, TRUE>>, <<TRUE, TRUE>>}}
    ELSE {[cfi |-> None, percent |-> None, span |-> None, audio |-> p, file |-> k] :
             p \in Places, k \in MaybeFile}

(* A Kobo bookmark: a percent, a span or both, and a CFI when the kepub    *)
(* places the span; a span that is all there is stores nothing.            *)
bookmarks ==
    {EpubAt(p, has[1], has[2], has[3]) :
        p \in Places,
        has \in {<<FALSE, TRUE, FALSE>>, <<FALSE, TRUE, TRUE>>,
                 <<TRUE, TRUE, TRUE>>, <<TRUE, FALSE, TRUE>>}}

(* A KOReader push: a percent, a CFI when the converter can prove it. *)
pushes == {EpubAt(p, derived, TRUE, FALSE) : p \in Places, derived \in BOOLEAN}

Row == [position : Position, at : Time]
Observation == [place : Places, at : Time]
Derivation == [place : Places, at : Time, observe : MaybePlace]
Mark == [max : Places, at : Time]
StatusRow == [status : Status, at : Time, auto : BOOLEAN,
              finished : Time \cup {None}]

(* A status the reader set, the moment it was set for, and whether they    *)
(* ever marked the book unread.                                            *)
Choice == [status : Status, at : Time, unread : BOOLEAN]

(* None stands for a row that is not there, or a NULL. *)
ASSUME NoneAssumption == None \notin Row \cup Derivation \cup Mark \cup StatusRow
                                      \cup Choice

TypeOK ==
    /\ now \in Time
    /\ row \in [Formats -> Row \cup {None}]
    /\ \A f \in Formats : row[f] # None => row[f].at <= now
    /\ mark \in [Formats -> Mark \cup {None}]
    /\ credited \in [Formats -> Nat]
    /\ status \in StatusRow \cup {None}
    /\ spawning \subseteq Observation
    /\ walk \in Derivation \cup {None}
    /\ enrich \in Derivation \cup {None}
    /\ delivered \subseteq [format : Formats, position : Position, stamp : Time]
    /\ heard \in [Formats -> SUBSET Observation]
    /\ chosen \in Choice \cup {None}
    /\ messages \in 0 .. MaxMessages
    /\ crashes \in 0 .. MaxCrashes

Init ==
    /\ now = 0
    /\ row = [f \in Formats |-> None]
    /\ mark = [f \in Formats |-> None]
    /\ credited = [f \in Formats |-> 0]
    /\ status = None
    /\ spawning = {}
    /\ walk = None
    /\ enrich = None
    /\ delivered = {}
    /\ heard = [f \in Formats |-> {}]
    /\ chosen = None
    /\ messages = 0
    /\ crashes = 0

-----------------------------------------------------------------------------
(* The ledger. *)

(* Whether an observation continues the sitting of the mark: a negative gap *)
(* is a late observation, not idleness.                                     *)
continues(m, at) == at - m.at <= IDLE_GAP_SECS

(* Mutant: a step back counts as ground too. *)
gain_any_move(m, place) == IF place > m.max THEN place - m.max ELSE m.max - place

(* Only ground past the furthest place of the sitting counts. *)
gain(m, place) == IF place > m.max THEN place - m.max ELSE 0

(* Mutant: the mark follows the reader back. *)
next_mark_follows(m, place, at) ==
    [max |-> place, at |-> Max({m.at, at})]

(* The furthest place of one sitting; a new sitting starts where it is. *)
next_mark(m, place, at) ==
    [max |-> IF continues(m, at) THEN Max({m.max, place}) ELSE place,
     at  |-> Max({m.at, at})]

(* The first observation is a baseline and gains nothing. *)
observe_percent_tx(f, place, at) ==
    /\ mark' = [mark EXCEPT ![f] =
                   IF @ = None THEN [max |-> place, at |-> at]
                               ELSE next_mark(@, place, at)]
    /\ credited' = [credited EXCEPT ![f] =
                   IF mark[f] = None THEN @ ELSE @ + gain(mark[f], place)]
    /\ heard' = [heard EXCEPT ![f] = @ \cup {[place |-> place, at |-> at]}]

observe_nothing == UNCHANGED <<mark, credited, heard>>

-----------------------------------------------------------------------------
(* Read status. *)

(* A chosen status always wins and is dated when it arrives. *)
set_read_status_tx(s, st) ==
    [status   |-> s,
     at       |-> now,
     auto     |-> FALSE,
     finished |-> IF s # "finished" THEN None
                  ELSE IF st # None /\ st.finished # None THEN st.finished
                  ELSE now]

(* Mutant: a status a position began holds like one the reader chose. *)
outranks_by_date(at, st) == at >= st.at

(* A dated status wins when it is not older, or over one a position began. *)
outranks(at, st) == at >= st.at \/ st.auto

set_read_status_at_tx(s, event_at, st) ==
    LET at == Min({event_at, now}) IN
    IF st # None /\ ~outranks(at, st) THEN st
    ELSE [status   |-> s,
          at       |-> at,
          auto     |-> FALSE,
          finished |-> IF s # "finished" THEN None
                       ELSE IF st # None /\ st.finished # None THEN st.finished
                       ELSE at]

(* A surviving position starts a book that has no status. *)
mark_started(at, st) ==
    IF st = None
    THEN [status |-> "reading", at |-> at, auto |-> TRUE, finished |-> None]
    ELSE st

(* A KOReader position starts a book still marked unread. *)
start_unread_at_tx(at, st) ==
    IF st # None /\ st.status = "unread"
    THEN set_read_status_at_tx("reading", at, st)
    ELSE st

-----------------------------------------------------------------------------
(* Positions. *)

(* A near-zero audio position over a far one in the same file is a dying   *)
(* page, refused before the upsert.                                        *)
is_audio_teardown_zero_write(f, w) ==
    /\ f = "audio" /\ row[f] # None
    /\ w.file = row[f].position.file \/ None \in {w.file, row[f].position.file}
    /\ w.audio # None /\ w.audio = 0
    /\ row[f].position.audio # None /\ row[f].position.audio >= Deep

(* Mutant: the last write to arrive wins, whatever its event time. *)
loses_never_older(f, w, at) == FALSE

(* The WHERE clause: newest event time wins, and a file-less audio write   *)
(* never replaces a row that names one of several files.                   *)
loses(f, w, at) ==
    /\ row[f] # None
    /\ \/ at < row[f].at
       \/ /\ f = "audio" /\ w.file = None
          /\ row[f].position.file # None /\ Cardinality(Files) > 1

(* The upsert keeps the whole offered position or the whole stored one. *)
surviving(f, w, at) ==
    IF loses(f, w, at) THEN row[f] ELSE [position |-> w, at |-> at]

(* A percent derivation is spawned only for the surviving row of a POST    *)
(* that has a CFI and no percent.                                          *)
needs_walk(kept) == kept.position.cfi # None /\ kept.position.percent = None

(* Mutant: an event time is believed as sent. *)
stamp_unclamped(w) == w.at

(* Event times are clamped to the server's now. *)
stamp(w) == Min({w.at, now})

offer(w, at) == [format |-> w.format, position |-> w.position, stamp |-> at]

(* upsert_progress and the handlers around it, in their one transaction:   *)
(* told is the status the same push set first, or the stored one. A        *)
(* KOReader position that stands also starts a book still marked unread.   *)
Deliver(w, told, starts_unread) ==
    LET f == w.format
        at == stamp(w)
        kept == surviving(f, w.position, at)
        started == mark_started(kept.at, told)
    IN
    /\ messages < MaxMessages
    /\ messages' = messages + 1
    /\ IF is_audio_teardown_zero_write(f, w.position)
       THEN /\ observe_nothing
            /\ status' = told
            /\ UNCHANGED <<row, spawning, delivered>>
       ELSE /\ row' = [row EXCEPT ![f] = kept]
            /\ status' = IF starts_unread /\ kept.at <= w.at
                         THEN start_unread_at_tx(kept.at, started)
                         ELSE started
            /\ IF kept.position.percent = None THEN observe_nothing
               ELSE observe_percent_tx(f, kept.position.percent, kept.at)
            /\ spawning' =
                 IF w.via = "post" /\ f = "epub" /\ needs_walk(kept)
                 THEN spawning \cup {[place |-> kept.position.cfi, at |-> kept.at]}
                 ELSE spawning
            /\ delivered' = IF loses(f, w.position, at) /\ at >= row[f].at
                            THEN delivered
                            ELSE delivered \cup {offer(w, at)}
    /\ UNCHANGED <<now, walk, enrich, crashes>>

(* Times a device may give: its clock runs ahead, up to the end of time.   *)
EventTime == 0 .. Min({now + MaxAhead, MaxTime})

post_progress ==
    /\ \E f \in Formats : \E p \in posted(f), at \in EventTime :
           Deliver([via |-> "post", format |-> f, position |-> p, at |-> at],
                   status, FALSE)
    /\ UNCHANGED chosen

persist_bookmark ==
    /\ "epub" \in Formats
    /\ \E p \in bookmarks, at \in EventTime :
           Deliver([via |-> "kobo", format |-> "epub", position |-> p, at |-> at],
                   status, FALSE)
    /\ UNCHANGED chosen

(* What the history remembers of a status set for a moment: the choice of  *)
(* the latest moment, of one moment the last to arrive.                    *)
chooses(s, at) ==
    chosen' = LET unread == s = "unread" \/ (chosen # None /\ chosen.unread) IN
              IF chosen # None /\ at < chosen.at
              THEN [chosen EXCEPT !.unread = unread]
              ELSE [status |-> s, at |-> at, unread |-> unread]

(* The statuses KOReader has a word for that syncs. *)
read_status_for == Chooses \ {"unread"}

(* A KOReader push: a position, with or without a status. The stock         *)
(* protocol carries no device clock and no status, so its push is this one  *)
(* with the server's now.                                                   *)
koreader_push ==
    /\ "epub" \in Formats
    /\ \E p \in pushes, at \in EventTime :
           LET w == [via |-> "koreader", format |-> "epub", position |-> p,
                     at |-> at] IN
           \/ Deliver(w, status, TRUE) /\ UNCHANGED chosen
           \/ \E s \in read_status_for :
                  /\ chooses(s, Min({at, now}))
                  /\ Deliver(w, set_read_status_at_tx(s, at, status), FALSE)

(* A reader's own choice, from the web, iOS or a Kobo. *)
choose_status ==
    /\ messages < MaxMessages
    /\ messages' = messages + 1
    /\ \E s \in Chooses :
           /\ status' = set_read_status_tx(s, status)
           /\ chooses(s, now)
    /\ UNCHANGED <<now, row, mark, credited, derivations, delivered, heard,
                   crashes>>

(* A status KOReader set earlier, perhaps offline. *)
koreader_status ==
    /\ messages < MaxMessages
    /\ messages' = messages + 1
    /\ \E s \in read_status_for, at \in EventTime :
           /\ status' = set_read_status_at_tx(s, at, status)
           /\ chooses(s, Min({at, now}))
    /\ UNCHANGED <<now, row, mark, credited, derivations, delivered, heard,
                   crashes>>

-----------------------------------------------------------------------------
(* Derivations. *)

(* The handler reaches its spawn call after its commit, with the record    *)
(* the commit returned; a walk already in flight makes it a no-op.         *)
spawn_epub_percent_derivation ==
    \E r \in spawning :
        /\ spawning' = spawning \ {r}
        /\ walk' = IF walk = None
                   THEN [place |-> r.place, at |-> r.at, observe |-> None]
                   ELSE walk
        /\ UNCHANGED <<now, row, mark, credited, status, enrich, delivered,
                       heard, chosen, budgets>>

(* Mutant: any row without a percent will do. *)
still_unmeasured_any(r, at) == r # None /\ r.position.percent = None

(* The row a derivation meant: no percent yet, the same event time. *)
still_unmeasured(r, at) ==
    r # None /\ r.position.percent = None /\ r.at = at

attached(d, place) == [d EXCEPT !.observe = place]

attach_derived_percent ==
    /\ walk # None /\ walk.observe = None
    /\ IF still_unmeasured(row["epub"], walk.at)
       THEN /\ row' = [row EXCEPT !["epub"].position.percent = walk.place]
            /\ walk' = attached(walk, walk.place)
       ELSE /\ walk' = None
            /\ UNCHANGED row
    /\ UNCHANGED <<now, mark, credited, status, spawning, enrich, delivered,
                   heard, chosen, budgets>>

(* The ledger hears of the attach in a transaction of its own. *)
observe_attached_percent ==
    /\ walk # None /\ walk.observe # None
    /\ observe_percent_tx("epub", walk.observe, walk.at)
    /\ walk' = None
    /\ UNCHANGED <<now, row, status, spawning, enrich, delivered, chosen,
                   budgets>>

(* The CFI cannot be placed, or the walk fails. *)
derivation_fails ==
    /\ walk # None /\ walk.observe = None
    /\ walk' = None
    /\ UNCHANGED <<now, row, mark, credited, status, spawning, enrich,
                   delivered, heard, chosen, budgets>>

(* A Kobo sync reads a row with a CFI and no span ... *)
read_pending_web_cfi ==
    /\ "epub" \in Formats /\ enrich = None /\ row["epub"] # None
    /\ row["epub"].position.span = None /\ row["epub"].position.cfi # None
    /\ enrich' = [place |-> row["epub"].position.cfi, at |-> row["epub"].at,
                  observe |-> None]
    /\ UNCHANGED <<now, row, mark, credited, status, spawning, walk, delivered,
                   heard, chosen, budgets>>

(* ... attaches the span, and the percent when the row has none ... *)
still_without_span(r, at) == r # None /\ r.position.span = None /\ r.at = at

attach_derived_kobo_location ==
    /\ enrich # None /\ enrich.observe = None
    /\ IF still_without_span(row["epub"], enrich.at)
       THEN LET held == row["epub"].position.percent
                settled == IF held = None THEN enrich.place ELSE held
            IN /\ row' = [row EXCEPT !["epub"].position.span = enrich.place,
                                     !["epub"].position.percent = settled]
               /\ enrich' = attached(enrich, settled)
       ELSE /\ enrich' = None
            /\ UNCHANGED row
    /\ UNCHANGED <<now, mark, credited, status, spawning, walk, delivered,
                   heard, chosen, budgets>>

(* ... and observes the percent the row settled on. *)
observe_settled_percent ==
    /\ enrich # None /\ enrich.observe # None
    /\ observe_percent_tx("epub", enrich.observe, enrich.at)
    /\ enrich' = None
    /\ UNCHANGED <<now, row, status, spawning, walk, delivered, chosen, budgets>>

(* A restart forgets the in-flight set and every running task; with none   *)
(* of them it changes nothing.                                             *)
Crash ==
    /\ crashes < MaxCrashes
    /\ derivations # <<{}, None, None>>
    /\ messages < MaxMessages
    /\ crashes' = crashes + 1
    /\ messages' = messages + 1
    /\ spawning' = {} /\ walk' = None /\ enrich' = None
    /\ UNCHANGED <<now, row, mark, credited, status, delivered, heard, chosen>>

Tick ==
    /\ now < MaxTime
    /\ now' = now + 1
    /\ UNCHANGED <<row, mark, credited, status, derivations, delivered, heard,
                   chosen, budgets>>

Derive ==
    \/ spawn_epub_percent_derivation
    \/ attach_derived_percent
    \/ observe_attached_percent
    \/ read_pending_web_cfi
    \/ attach_derived_kobo_location
    \/ observe_settled_percent

Next ==
    \/ post_progress \/ persist_bookmark \/ koreader_push
    \/ choose_status \/ koreader_status
    \/ Derive \/ derivation_fails
    \/ Crash \/ Tick

Spec == Init /\ [][Next]_vars

-----------------------------------------------------------------------------
(* Properties. *)

(* Whatever order writes and replays arrive in, the stored position is one *)
(* that was offered, and no standing offer is of a later moment (the       *)
(* newest-wins WHERE clause, under late, repeated and fast-clock writes).  *)
NewestPositionStands ==
    \A f \in Formats :
        LET offers == {d \in delivered : d.format = f} IN
        /\ \A d \in offers : row[f] # None /\ d.stamp <= row[f].at
        /\ row[f] # None => \E d \in offers : d.stamp = row[f].at

(* The CFI, percent and Kobo span of a row were taken in one second: a     *)
(* derivation that ends after the reader moved on never annotates the new  *)
(* row with the old place (attach_derived_percent and                      *)
(* attach_derived_kobo_location match on the event time).                  *)
HalvesOfOneMoment ==
    \A f \in Formats : row[f] # None =>
        \A half \in {"cfi", "percent", "span", "audio"} :
            row[f].position[half] # None =>
                \E d \in delivered :
                    /\ d.format = f /\ d.stamp = row[f].at
                    /\ row[f].position[half] \in
                          {d.position[h] : h \in {"cfi", "percent", "audio"}}

observed_places(f) == {o.place : o \in heard[f]}
observed_span(f) ==
    LET ats == {o.at : o \in heard[f]} IN Max(ats) - Min(ats)

(* Inside one sitting the ledger credits the ground covered once, in       *)
(* whatever order the observations come and however often they repeat: the *)
(* mark is the furthest place heard, and a there-and-back move is free.    *)
SittingCreditsGround ==
    \A f \in Formats :
        heard[f] # {} /\ observed_span(f) <= IDLE_GAP_SECS =>
            /\ mark[f].max = Max(observed_places(f))
            /\ credited[f] <= Max(observed_places(f)) - Min(observed_places(f))

(* A replay is free: a position write delivered again for the moment it    *)
(* was taken in under credits no ground, provided the ledger has heard of  *)
(* the stored percent. (A write of a clock ahead of the server's, clamped  *)
(* once, is of a later moment when it is replayed, so it is another one.)  *)
ledger_heard(f) ==
    row[f] # None /\ row[f].position.percent # None =>
        [place |-> row[f].position.percent, at |-> row[f].at] \in heard[f]

ReplayIsFree ==
    [][\A d \in delivered :
           credited'[d.format] # credited[d.format] =>
               ~ /\ ledger_heard(d.format)
                 /\ \E via \in {"post", "kobo"} :
                        Deliver([via |-> via, format |-> d.format,
                                 position |-> d.position, at |-> d.stamp],
                                status, FALSE)]_vars

(* "No status means untouched": a stored position and a missing status     *)
(* never coexist. Until the reader chooses, the status is the `reading` a  *)
(* position began, and the choice takes its place however late it comes.   *)
(* The newest choice then stands, with one exception: a KOReader position  *)
(* turns a chosen `unread` into a `reading` of the position's moment       *)
(* (start_unread_at_tx), which counts as chosen, so a choice of an earlier *)
(* moment that arrives after it is refused.                                *)
StartedOrChosen ==
    /\ (\E f \in Formats : row[f] # None) => status # None
    /\ status # None /\ chosen = None => status.auto /\ status.status = "reading"
    /\ chosen # None =>
          /\ status # None /\ ~status.auto
          /\ \/ status.status = chosen.status /\ status.at = chosen.at
             \/ /\ status.status = "reading" /\ chosen.unread
                /\ \E d \in delivered : d.stamp = status.at
                /\ \/ chosen.at < status.at
                   \/ chosen.at = status.at /\ chosen.status = "unread"
=============================================================================
