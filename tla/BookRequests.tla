---------------------------- MODULE BookRequests ----------------------------
(***************************************************************************)
(* Book requests (db/src/requests): a reader asks for a book, a background *)
(* search finds versions of it, the reader picks one, a poller hands the   *)
(* pick to the download client, follows it and files the finished download *)
(* in the library.  Five kinds of actor touch the request table: the       *)
(* reader's HTTP handlers, the spawned searches, the one poller, the       *)
(* deletion of a book, and the deletion of a reader's account.  Each of    *)
(* their statements and client calls is a step, so that a reader's click   *)
(* can land between any two steps of a poller pass, and a crash after any  *)
(* of them.                                                                *)
(*                                                                         *)
(* Time is kept to what the code compares it with: cancel_at is "ahead" or *)
(* "due", remove_since "recent" or "overdue", failing_since likewise, and  *)
(* the idle time of a download is a choice of judge.  Versions the ranking *)
(* dropped are never offered and are left out, so that a version is        *)
(* `rejected` exactly when it was tried.                                   *)
(***************************************************************************)
EXTENDS Naturals, FiniteSets

CONSTANTS
    MaxRequests,   \* bound: requests ever started
    MaxResults,    \* bound: versions ever recorded
    MaxSearches,   \* bound: searches running at once
    MaxCrashes,    \* bound: restarts of the server
    MaxFaults,     \* bound: calls the client fails or refuses
    MaxTroubles,   \* bound: restarts and failed calls together
    Readers, Books,
    Guids,         \* the releases the indexer knows
    MAX_LIVE,      \* live requests a reader may hold
    None

RequestId == 1 .. MaxRequests
ResultId  == 1 .. MaxResults
Slot      == 1 .. MaxSearches

ASSUME BoundsAssumption ==
    /\ MaxRequests \in Nat /\ MaxResults \in Nat /\ MaxSearches \in Nat
    /\ MaxCrashes \in Nat /\ MaxFaults \in Nat /\ MaxTroubles \in Nat
    /\ MAX_LIVE \in Nat
    /\ IsFiniteSet(Guids)

(* The name of a download, `omnibus-<request>-<version>`. *)
Tag == RequestId \X ResultId

LIVE_STATES == {"looking", "choose", "chosen", "on_its_way"}
State == LIVE_STATES \cup {"ready", "stuck", "cancelled"}
StuckReason == {"not_found", "search_failed", "stopped_moving", "couldnt_add"}

(* What a download client may do with a job on its own: fetch the link, or *)
(* fail to; finish, fail or lose the download; be cleaned up by an admin.  *)
ClientNext ==
    [absent      |-> {},
     fetching    |-> {"downloading", "absent"},
     downloading |-> {"finished", "error", "absent"},
     finished    |-> {"absent"},
     error       |-> {"absent"}]

(* The jobs its status call shows: one still being fetched is not there. *)
Shown == {"downloading", "finished", "error"}

-----------------------------------------------------------------------------
VARIABLES
    next_request, \* the id the next request gets
    deleted,      \* the books removed from the library
    gone_readers, \* the readers whose account was deleted
    orphaned,    \* history: the tags of the rows that went with an account
    request,      \* the book_requests table; None: no such row
    result,       \* the book_request_results table
    next_result,  \* the id the next version gets: ids never repeat
    search,       \* search[k]: the request of the k-th running search
    client,       \* client[t]: the client's job named t
    library,      \* library[t]: files filed from the download named t
    poller,       \* where the poller is, and the rows it has read
    failing,      \* its failing_since
    faults,       \* client calls failed so far
    crashes       \* restarts so far

versions == <<result, next_result>>
outside  == <<client, library>>
budgets  == <<faults, crashes>>
accounts == <<gone_readers, orphaned>>
shelf    == <<next_request, deleted, accounts>>
vars == <<request, versions, search, outside, poller, failing, budgets, shelf>>


(* A poller at step `at`, with the rows left to work through, as read. *)
Poller(at, todo) == [at |-> at, todo |-> todo, verdict |-> None]

PollerSteps ==
    {"idle", "read_removals", "removals", "remove", "read_adds", "adds",
     "hand_over", "added", "refused", "read_downloads", "downloads", "verdict",
     "unreachable", "stop", "stop_idle", "read_finished", "imports", "key",
     "scan"}

RequestRow ==
    [reader : Readers, book : Books, state : State,
     stuck_reason : StuckReason \cup {None},
     chosen : ResultId \cup {None},
     client_tag : Tag \cup {None}, import_key : Tag \cup {None},
     remove_tag : Tag \cup {None},
     remove_since : {"recent", "overdue", None},
     progress : {"part", "full", None},
     cancel_at : {"ahead", "due", None},
     prior_state : LIVE_STATES \cup {None}]

ResultRow == [req : RequestId, guid : Guids, tried : BOOLEAN]

Copy == [id : RequestId, row : RequestRow]

PollerState ==
    [at : PollerSteps, todo : SUBSET Copy,
     verdict : {"stopped", "part", "full", None}]

(* None stands for a row that is not there, or a NULL, which is no value   *)
(* of the column.                                                          *)
ASSUME NoneAssumption ==
    /\ None \notin RequestRow \cup ResultRow
    /\ None \notin Readers \cup Books \cup Guids \cup RequestId \cup ResultId
    /\ None \notin Tag \cup State \cup StuckReason
    /\ None \notin {"recent", "overdue", "part", "full", "ahead", "due", "stopped"}

TypeOK ==
    /\ next_request \in 1 .. MaxRequests + 1
    /\ deleted \subseteq Books
    /\ gone_readers \subseteq Readers
    /\ orphaned \subseteq Tag
    /\ request \in [RequestId -> RequestRow \cup {None}]
    /\ result \in [ResultId -> ResultRow \cup {None}]
    /\ next_result \in 1 .. MaxResults + 1
    /\ search \in [Slot -> RequestId \cup {None}]
    /\ client \in [Tag -> DOMAIN ClientNext]
    /\ library \in [Tag -> Nat]
    /\ poller \in PollerState
    /\ failing \in {"recent", "overdue", None}
    /\ faults \in 0 .. MaxFaults
    /\ crashes \in 0 .. MaxCrashes

Init ==
    /\ next_request = 1
    /\ deleted = {}
    /\ gone_readers = {} /\ orphaned = {}
    /\ request = [r \in RequestId |-> None]
    /\ result = [v \in ResultId |-> None]
    /\ next_result = 1
    /\ search = [k \in Slot |-> None]
    /\ client = [t \in Tag |-> "absent"]
    /\ library = [t \in Tag |-> 0]
    /\ poller = Poller("idle", {})
    /\ failing = None
    /\ faults = 0
    /\ crashes = 0

-----------------------------------------------------------------------------
(* The table.                                                              *)

exists(r) == request[r] # None

troubles_left == faults + crashes < MaxTroubles

live(r) == exists(r) /\ request[r].state \in LIVE_STATES

downloading(row) == row.state = "on_its_way" /\ row.progress # "full"

update(r, row) == request' = [request EXCEPT ![r] = row]

(* The versions of r still to choose from. *)
offered(r) ==
    {v \in ResultId : result[v] # None /\ result[v].req = r /\ ~result[v].tried}

live_of(reader) == {r \in RequestId : live(r) /\ request[r].reader = reader}

(* Whether r may go live again. *)
ensure_room(r) ==
    LET others == live_of(request[r].reader)
    IN  /\ \A o \in others : request[o].book # request[r].book
        /\ Cardinality(others) < MAX_LIVE

(* Spawn a search for r, which may have another one still running. *)
spawn_search(r) ==
    \E k \in Slot :
        /\ search[k] = None
        /\ \A j \in 1 .. k - 1 : search[j] # None
        /\ search' = [search EXCEPT ![k] = r]

(* Mutant: only a new or retried request is searched. *)
search_again_never(r, state) == UNCHANGED search

(* What a handler does with a request that it sent back to looking. *)
search_again(r, state) ==
    IF state = "looking" THEN spawn_search(r) ELSE UNCHANGED search

-----------------------------------------------------------------------------
(* The reader's handlers (server/src/backend/requests.rs).                 *)

(* Start a request unless the reader has a live one for the book. *)
start(reader, book) ==
    /\ book \notin deleted /\ reader \notin gone_readers
    /\ \A r \in live_of(reader) : request[r].book # book
    /\ Cardinality(live_of(reader)) < MAX_LIVE
    /\ next_request \in RequestId
    /\ next_request' = next_request + 1
    /\ update(next_request,
              [reader |-> reader, book |-> book, state |-> "looking",
               stuck_reason |-> None, chosen |-> None, client_tag |-> None,
               import_key |-> None, remove_tag |-> None, remove_since |-> None,
               progress |-> None, cancel_at |-> None, prior_state |-> None])
    /\ spawn_search(next_request)
    /\ UNCHANGED <<versions, outside, poller, failing, budgets, deleted,
                   accounts>>

choose(r, v) ==
    /\ exists(r) /\ request[r].state = "choose"
    /\ v \in offered(r)
    /\ update(r, [request[r] EXCEPT !.state = "chosen", !.chosen = v])
    /\ UNCHANGED <<versions, search, outside, poller, failing, budgets, shelf>>

(* Mutant: a finished download can be cancelled under the import. *)
may_cancel_finished(q) == q.state \in LIVE_STATES

may_cancel(q) == q.state \in {"looking", "choose", "chosen"} \/ downloading(q)

cancel(r) ==
    /\ exists(r) /\ may_cancel(request[r])
    /\ update(r, [request[r] EXCEPT !.prior_state = request[r].state,
                                    !.state = "cancelled",
                                    !.cancel_at = "ahead"])
    /\ UNCHANGED <<versions, search, outside, poller, failing, budgets, shelf>>

(* Mutant: any row with a state to go back to, or without. *)
may_undo_any(q) == q.state \in {"cancelled", "stuck"}

(* Mutant: the end of the grace is not looked at. *)
may_undo_late(q) == q.state = "cancelled" /\ q.prior_state # None

may_undo(q) ==
    q.state = "cancelled" /\ q.cancel_at = "ahead" /\ q.prior_state # None

(* Undo while the grace lasts; a request that was looking is searched      *)
(* again, because the search the cancel cut short left nothing.            *)
undo_cancel(r) ==
    /\ exists(r) /\ may_undo(request[r])
    /\ ensure_room(r)
    /\ update(r, [request[r] EXCEPT !.state = request[r].prior_state,
                                    !.prior_state = None,
                                    !.cancel_at = None])
    /\ search_again(r, request[r].prior_state)
    /\ UNCHANGED <<versions, outside, poller, failing, budgets, shelf>>

(* Mutant: a download that could not be added can be given up too. *)
may_swap_stuck(q) ==
    /\ q.remove_tag = None
    /\ \/ downloading(q)
       \/ q.state = "stuck" /\ q.chosen # None

may_swap(q) ==
    /\ q.remove_tag = None
    /\ \/ downloading(q)
       \/ q.state = "stuck" /\ q.stuck_reason = "stopped_moving"

(* Mutant: the tag is copied to the removal list instead of moved. *)
swapped_copies_tag(q, state) ==
    [q EXCEPT !.state = state, !.stuck_reason = None,
              !.remove_tag = q.client_tag, !.remove_since = "recent",
              !.chosen = None, !.progress = None]

(* A row whose download goes on the removal list. *)
swapped(q, state) ==
    [q EXCEPT !.state = state, !.stuck_reason = None,
              !.remove_tag = q.client_tag,
              !.remove_since = IF q.client_tag = None THEN None ELSE "recent",
              !.client_tag = None, !.chosen = None, !.progress = None]

(* Give up the picked version, for good; without another version to choose *)
(* from, look again.                                                       *)
swap_in(r) ==
    LET picked == request[r].chosen
        state == IF offered(r) \ {picked} # {} THEN "choose" ELSE "looking"
    IN  /\ may_swap(request[r])
        /\ result' = [result EXCEPT ![picked].tried = TRUE]
        /\ update(r, swapped(request[r], state))
        /\ search_again(r, state)
        /\ UNCHANGED <<next_result, outside, poller, failing, budgets, shelf>>

swap(r) == exists(r) /\ swap_in(r)

(* "Try again" on a stuck download gives it up; on a failed import it goes *)
(* back to the import; anything else looking or stuck is searched afresh,  *)
(* everything found before forgotten.                                      *)
restart(r) ==
    LET q == request[r]
        stuck_on(reason) == q.state = "stuck" /\ q.stuck_reason = reason
    IN  /\ exists(r)
        /\ \/ stuck_on("stopped_moving") /\ swap_in(r)
           \/ /\ stuck_on("couldnt_add")
              /\ ensure_room(r)
              /\ update(r, [q EXCEPT !.state = "on_its_way",
                                       !.progress = "full",
                                       !.stuck_reason = None])
              /\ UNCHANGED <<versions, search>>
              /\ UNCHANGED <<outside, poller, failing, budgets, shelf>>
           \/ /\ \/ q.state = "looking"
                 \/ stuck_on("not_found") \/ stuck_on("search_failed")
              /\ update(r, [q EXCEPT !.state = "looking",
                                       !.stuck_reason = None])
              /\ result' = [v \in ResultId |->
                               IF result[v] # None /\ result[v].req = r
                               THEN None ELSE result[v]]
              /\ spawn_search(r)
              /\ UNCHANGED <<next_result, outside, poller, failing,
                             budgets, shelf>>

-----------------------------------------------------------------------------
(* A spawned search (search.rs).                                           *)

ends(k) == search' = [search EXCEPT ![k] = None]

looking(k) ==
    exists(search[k]) /\ request[search[k]].state = "looking"

(* A search that finds its request no longer looking stops by itself. *)
run_search_stops(k) ==
    /\ search[k] # None
    /\ ~looking(k)
    /\ ends(k)
    /\ UNCHANGED <<request, versions, outside, poller, failing, budgets,
                   shelf>>

(* The releases r already tried and gave up, as far as the table knows. *)
tried_guids(r) ==
    {result[v].guid : v \in {u \in ResultId : /\ result[u] # None
                                              /\ result[u].req = r
                                              /\ result[u].tried}}

without_given_up(r, found) == found \ tried_guids(r)

(* The indexer failed, or returned `found`; what is left of it replaces    *)
(* the versions of the last search.                                        *)
finish_search(k) ==
    LET r == search[k]
        stuck(reason) ==
            /\ update(r, [request[r] EXCEPT !.state = "stuck",
                                            !.stuck_reason = reason])
            /\ UNCHANGED <<result, next_result>>
        found(kept) ==
            LET ids == next_result .. next_result + Cardinality(kept) - 1
            IN  /\ ids \subseteq ResultId
                /\ update(r, [request[r] EXCEPT !.state = "choose",
                                                !.stuck_reason = None])
                /\ next_result' = next_result + Cardinality(kept)
                /\ \E ranking \in [ids -> kept] :
                      /\ \A a, b \in ids : ranking[a] = ranking[b] => a = b
                      /\ result' = [v \in ResultId |->
                           IF v \in ids
                           THEN [req |-> r, guid |-> ranking[v], tried |-> FALSE]
                           ELSE IF v \in offered(r) THEN None ELSE result[v]]
    IN  /\ search[k] # None
        /\ looking(k)
        /\ \/ stuck("search_failed")
           \/ \E ranked \in SUBSET Guids :
                 LET kept == without_given_up(r, ranked)
                 IN  \/ kept = {} /\ stuck("not_found")
                     \/ kept # {} /\ found(kept)
        /\ ends(k)
        /\ UNCHANGED <<outside, poller, failing, budgets, shelf>>

-----------------------------------------------------------------------------
(* The poller (poller.rs, store/download.rs).  A pass reads the rows of a  *)
(* phase at once and then works through these copies, one at a time.       *)

goto(at, todo) == poller' = Poller(at, todo)

(* The row at hand: the rows come in the order of their ids. *)
at_hand == CHOOSE e \in poller.todo : \A f \in poller.todo : e.id <= f.id
row == at_hand.row
id  == at_hand.id
next_row(at) == goto(at, poller.todo \ {at_hand})

(* The rows of the requests named by ids, as they are now. *)
rows(ids) == {[id |-> r, row |-> request[r]] : r \in ids}

(* Read the rows of a phase, or leave it when they are worked through. *)
read(at, ids, phase) == poller.at = at /\ goto(phase, rows(ids))
leave(at, next) == poller.at = at /\ poller.todo = {} /\ goto(next, {})
at_row(at) == poller.at = at /\ poller.todo # {}

awaiting_removal == {r \in RequestId : exists(r) /\ request[r].remove_tag # None}

awaiting_add ==
    {r \in RequestId : /\ exists(r)
                       /\ request[r].state = "chosen" /\ request[r].chosen # None}

following ==
    {r \in RequestId : /\ exists(r)
                       /\ downloading(request[r]) /\ request[r].client_tag # None}

finished(q) == q.state = "on_its_way" /\ q.progress = "full" /\ q.client_tag # None

(* Mutant: a download filed before is not taken up again. *)
awaiting_import_once ==
    {r \in RequestId : /\ exists(r) /\ finished(request[r])
                       /\ request[r].import_key = None}

awaiting_import == {r \in RequestId : exists(r) /\ finished(request[r])}

(* The client answers with an error: the pass ends there. *)
client_fails ==
    /\ faults < MaxFaults /\ troubles_left
    /\ faults' = faults + 1
    /\ goto("unreachable", {})

refuses == faults < MaxFaults /\ troubles_left /\ faults' = faults + 1

(* Mutant: a cancel is not held back while an earlier download goes. *)
claimable_early(q) == q.cancel_at = "due"

(* A cancel whose grace ended; held back while an earlier download goes. *)
claimable(q) ==
    q.cancel_at = "due" /\ (q.remove_tag = None \/ q.client_tag = None)

(* A tick begins by claiming the cancels whose grace ended. *)
claim_due_cancels ==
    /\ poller.at = "idle"
    /\ request' = [r \in RequestId |->
         IF exists(r) /\ claimable(request[r])
         THEN [request[r] EXCEPT
                 !.remove_tag = IF request[r].client_tag = None THEN @
                                ELSE request[r].client_tag,
                 !.remove_since = IF request[r].client_tag = None THEN @
                                  ELSE "recent",
                 !.client_tag = None, !.cancel_at = None]
         ELSE request[r]]
    /\ goto("read_removals", {})
    /\ UNCHANGED <<versions, search, outside, failing, budgets, shelf>>

(* Mutant: a download that never shows up is waited for. *)
gone_if_seen(q) == q.remove_since = None

(* A download not shown: seen before, or given its time to appear. *)
gone(q) == q.remove_since \in {None, "overdue"}

(* The row at hand still has the tag that was read. *)
still_to_remove == exists(id) /\ request[id].remove_tag = row.remove_tag

(* Ask the client for the download to remove: shown, it is noted as seen;  *)
(* not shown, it is gone if it was seen before or had its time to appear.  *)
(* Nothing else writes remove_tag while it is set, so the question and the *)
(* write that follows it are one step; a row that went with its account is *)
(* written no more.                                                        *)
remove_pending ==
    /\ at_row("removals")
    /\ \/ /\ client[row.remove_tag] \in Shown
          /\ IF still_to_remove
             THEN update(id, [request[id] EXCEPT !.remove_since = None])
             ELSE UNCHANGED request
          /\ goto("remove", poller.todo)
          /\ UNCHANGED faults
       \/ /\ client[row.remove_tag] \notin Shown
          /\ IF gone(row) /\ still_to_remove
             THEN update(id, [request[id] EXCEPT !.remove_tag = None,
                                                 !.remove_since = None])
             ELSE UNCHANGED request
          /\ next_row("removals")
          /\ UNCHANGED faults
       \/ client_fails /\ UNCHANGED request
    /\ UNCHANGED <<versions, search, outside, failing, crashes, shelf>>

(* client.remove, files and all; refused, it is tried again next pass. *)
remove_call ==
    /\ poller.at = "remove"
    /\ \/ /\ client' = [client EXCEPT ![row.remove_tag] = "absent"]
          /\ next_row("removals")
          /\ UNCHANGED faults
       \/ refuses /\ next_row("removals") /\ UNCHANGED client
       \/ client_fails /\ UNCHANGED client
    /\ UNCHANGED <<request, versions, search, library, failing, crashes,
                   shelf>>

(* Tag the pick before the client is called, and keep the tag. *)
begin_download ==
    /\ at_row("adds")
    /\ IF id \in awaiting_add
       THEN LET tag == <<id, request[id].chosen>>
                tagged == [at_hand EXCEPT !.row.client_tag = tag]
            IN  /\ update(id, [request[id] EXCEPT !.client_tag = tag])
                /\ IF result[request[id].chosen] # None
                   THEN goto("hand_over", (poller.todo \ {at_hand}) \cup {tagged})
                   ELSE next_row("adds")
       ELSE next_row("adds") /\ UNCHANGED request
    /\ UNCHANGED <<versions, search, outside, failing, budgets, shelf>>

(* Add the link unless the client has the job; a job being fetched is not  *)
(* shown, so it may be added twice, and a failed call may have worked.     *)
hand_over ==
    LET tag == row.client_tag
        add == client' = [client EXCEPT ![tag] = IF @ = "absent" THEN "fetching"
                                                 ELSE @]
    IN  /\ poller.at = "hand_over"
        /\ \/ /\ IF client[tag] \in Shown THEN UNCHANGED client ELSE add
              /\ goto("added", poller.todo)
              /\ UNCHANGED faults
           \/ /\ client[tag] \notin Shown
              /\ refuses
              /\ goto("refused", poller.todo)
              /\ UNCHANGED client
           \/ client_fails /\ (UNCHANGED client \/ add)
        /\ UNCHANGED <<request, versions, search, library, failing, crashes,
                       shelf>>

mark_on_its_way ==
    /\ poller.at = "added"
    /\ IF exists(id) /\ request[id].state = "chosen"
       THEN update(id, [request[id] EXCEPT !.state = "on_its_way"])
       ELSE UNCHANGED request
    /\ next_row("adds")
    /\ UNCHANGED <<versions, search, outside, failing, budgets, shelf>>

(* The row is there and still has the pick the poller read. *)
same_pick ==
    exists(id) /\ request[id].chosen = row.chosen /\ row.chosen # None

mark_stuck(reason) ==
    IF same_pick /\ request[id].state \in {"chosen", "on_its_way"}
    THEN update(id, [request[id] EXCEPT !.state = "stuck",
                                        !.stuck_reason = reason])
    ELSE UNCHANGED request

add_refused ==
    /\ poller.at = "refused"
    /\ mark_stuck("stopped_moving")
    /\ next_row("adds")
    /\ UNCHANGED <<versions, search, outside, failing, budgets, shelf>>

(* What an answer of the client means for the row read before it; how long *)
(* the download has been idle is left open, except that a link the client  *)
(* is still fetching is shown within APPEAR_SECS.                          *)
judge(q, job) ==
    CASE job \notin Shown -> IF q.progress # None THEN {"stopped"}
                             ELSE IF job = "fetching" THEN {None}
                             ELSE {None, "stopped"}
      [] job = "error" -> {"stopped"}
      [] job = "finished" -> {"full"}
      [] job = "downloading" -> IF q.progress = None THEN {"part"}
                                ELSE {"part", None, "stopped"}

follow_downloads ==
    /\ at_row("downloads")
    /\ \/ /\ \E v \in judge(row, client[row.client_tag]) :
                IF v = None THEN next_row("downloads")
                ELSE poller' = [poller EXCEPT !.at = "verdict", !.verdict = v]
          /\ UNCHANGED faults
       \/ client_fails
    /\ UNCHANGED <<request, versions, search, outside, failing, crashes,
                   shelf>>

(* record_progress, for the pick that was read. *)
record_progress ==
    IF same_pick /\ request[id].state = "on_its_way"
    THEN update(id, [request[id] EXCEPT !.progress = poller.verdict])
    ELSE UNCHANGED request

write_verdict ==
    /\ poller.at = "verdict"
    /\ \/ poller.verdict = "stopped" /\ mark_stuck("stopped_moving")
       \/ poller.verdict \in {"part", "full"} /\ record_progress
    /\ next_row("downloads")
    /\ UNCHANGED <<versions, search, outside, failing, budgets, shelf>>

(* The failure clock: kept while passes fail, cleared by one that does     *)
(* not; once overdue, every download on its way is stopped.                *)
poll_once ==
    /\ \/ leave("downloads", "read_finished") /\ failing' = None
       \/ /\ poller.at = "unreachable"
          /\ failing' = IF failing = None THEN "recent" ELSE failing
          /\ IF failing = "overdue" THEN goto("stop", rows(following))
             ELSE goto("read_finished", {})
    /\ UNCHANGED <<request, versions, search, outside, budgets, shelf>>

(* A tick without a configured client only stops what is on its way. *)
poll_tick_unconfigured ==
    /\ read("idle", following, "stop_idle")
    /\ UNCHANGED <<request, versions, search, outside, failing, budgets,
                   shelf>>

stop_downloading ==
    /\ at_row("stop") \/ at_row("stop_idle")
    /\ mark_stuck("stopped_moving")
    /\ next_row(poller.at)
    /\ UNCHANGED <<versions, search, outside, failing, budgets, shelf>>

(* From one phase of a tick to the next. *)
next_phase ==
    /\ \/ read("read_removals", awaiting_removal, "removals")
       \/ leave("removals", "read_adds")
       \/ read("read_adds", awaiting_add, "adds")
       \/ leave("adds", "read_downloads")
       \/ read("read_downloads", following, "downloads")
       \/ leave("stop", "read_finished")
       \/ leave("stop_idle", "idle")
       \/ read("read_finished", awaiting_import, "imports")
       \/ leave("imports", "idle")
    /\ UNCHANGED <<request, versions, search, outside, failing, budgets,
                   shelf>>

-----------------------------------------------------------------------------
(* The import of a finished download (import.rs, import/place.rs).         *)

(* import_one up to the file's place: a file noted by an earlier try is    *)
(* taken up again; otherwise the client must still have the download.      *)
import_one ==
    /\ at_row("imports")
    /\ LET tag == row.client_tag
           filed == row.import_key # None /\ library[row.import_key] > 0
       IN  \/ /\ filed
              /\ goto("scan", poller.todo)
              /\ UNCHANGED <<request, library, faults>>
           \/ /\ ~filed /\ client[tag] \in Shown
              /\ library' = [library EXCEPT ![tag] = @ + 1]
              /\ goto("key", poller.todo)
              /\ UNCHANGED <<request, faults>>
           \/ (* The client is still moving the files, or fails. *)
              /\ ~filed
              /\ refuses
              /\ next_row("imports")
              /\ UNCHANGED <<request, library>>
           \/ (* The client lost it; or there is no library, no book, no *)
              (* ebook in the download, no room on the disk.             *)
              /\ \/ ~filed /\ client[tag] \notin Shown /\ UNCHANGED faults
                 \/ refuses
              /\ mark_stuck("couldnt_add")
              /\ next_row("imports")
              /\ UNCHANGED library
    /\ UNCHANGED <<versions, search, client, failing, crashes, shelf>>

(* Note where the file is; a file that cannot be noted is taken back. *)
set_import_key ==
    /\ poller.at = "key"
    /\ \/ /\ IF same_pick /\ request[id].state = "on_its_way"
             THEN update(id, [request[id] EXCEPT !.import_key = row.client_tag])
             ELSE UNCHANGED request
          /\ goto("scan", poller.todo)
          /\ UNCHANGED <<library, faults>>
       \/ /\ refuses
          /\ library' = [library EXCEPT ![row.client_tag] = @ - 1]
          /\ mark_stuck("couldnt_add")
          /\ next_row("imports")
    /\ UNCHANGED <<versions, search, client, failing, crashes, shelf>>

mark_ready ==
    IF same_pick /\ request[id].state = "on_its_way"
    THEN update(id, [request[id] EXCEPT !.state = "ready"])
    ELSE UNCHANGED request

(* Scan the library, merge the book into the wished one, end the import. *)
scan_and_merge ==
    /\ poller.at = "scan"
    /\ \/ mark_ready /\ UNCHANGED faults
       \/ refuses /\ mark_stuck("couldnt_add")
    /\ next_row("imports")
    /\ UNCHANGED <<versions, search, outside, failing, crashes, shelf>>

-----------------------------------------------------------------------------
(* The world around it.                                                    *)

(* The book is deleted (deletion/purge.rs): its requests go, with their    *)
(* versions, except those with a download, which are cancelled for good.   *)
drop_requests(book) ==
    LET of_book == {r \in RequestId : exists(r) /\ request[r].book = book}
        tagged == {r \in of_book : \/ request[r].client_tag # None
                                  \/ request[r].remove_tag # None}
    IN  /\ book \notin deleted
        /\ deleted' = deleted \cup {book}
        /\ request' = [r \in RequestId |->
              IF r \in tagged
              THEN [request[r] EXCEPT !.state = "cancelled",
                                      !.prior_state = None,
                                      !.cancel_at = "due"]
              ELSE IF r \in of_book THEN None ELSE request[r]]
        /\ result' = [v \in ResultId |->
              IF result[v] # None /\ result[v].req \in of_book \ tagged
              THEN None ELSE result[v]]
        /\ UNCHANGED <<next_result, search, outside, poller, failing,
                       budgets, next_request, accounts>>

(* A reader's account, not that of the last admin, is deleted              *)
(* (auth/users.rs): the requests of the reader go by cascade, with their   *)
(* versions and with the tags that name jobs of the client.                *)
delete_user(reader) ==
    LET of_reader == {r \in RequestId : /\ exists(r)
                                        /\ request[r].reader = reader}
    IN  /\ reader \notin gone_readers
        /\ gone_readers' = gone_readers \cup {reader}
        /\ orphaned' = orphaned \cup
              {t \in Tag : \E r \in of_reader :
                              t \in {request[r].client_tag, request[r].remove_tag}}
        /\ request' = [r \in RequestId |->
                          IF r \in of_reader THEN None ELSE request[r]]
        /\ result' = [v \in ResultId |->
                         IF result[v] # None /\ result[v].req \in of_reader
                         THEN None ELSE result[v]]
        /\ UNCHANGED <<next_result, search, outside, poller, failing, budgets,
                       next_request, deleted>>

client_moves(t) ==
    /\ \E j \in ClientNext[client[t]] : client' = [client EXCEPT ![t] = j]
    /\ UNCHANGED <<request, versions, search, library, poller, failing,
                   budgets, shelf>>

(* CANCEL_GRACE_SECS pass. *)
grace_ends(r) ==
    /\ exists(r) /\ request[r].cancel_at = "ahead"
    /\ update(r, [request[r] EXCEPT !.cancel_at = "due"])
    /\ UNCHANGED <<versions, search, outside, poller, failing, budgets, shelf>>

(* APPEAR_SECS pass without the download to remove having been seen: a     *)
(* link still being fetched is shown before that.                          *)
removal_ages(r) ==
    /\ exists(r) /\ request[r].remove_since = "recent"
    /\ client[request[r].remove_tag] # "fetching"
    /\ update(r, [request[r] EXCEPT !.remove_since = "overdue"])
    /\ UNCHANGED <<versions, search, outside, poller, failing, budgets, shelf>>

(* UNREACHABLE_SECS pass. *)
outage_ages ==
    /\ failing = "recent"
    /\ failing' = "overdue"
    /\ UNCHANGED <<request, versions, search, outside, poller, budgets,
                   shelf>>

(* The server restarts: the tables, the client and the library survive,    *)
(* the searches, the poller's place and its failure clock do not.          *)
crash ==
    /\ crashes < MaxCrashes /\ troubles_left
    /\ crashes' = crashes + 1
    /\ search' = [k \in Slot |-> None]
    /\ poller' = Poller("idle", {})
    /\ failing' = None
    /\ UNCHANGED <<request, versions, outside, faults, shelf>>

-----------------------------------------------------------------------------
PollerStep ==
    \/ claim_due_cancels \/ poll_tick_unconfigured
    \/ remove_pending \/ remove_call
    \/ begin_download \/ hand_over \/ mark_on_its_way \/ add_refused
    \/ follow_downloads \/ write_verdict \/ poll_once \/ stop_downloading
    \/ next_phase
    \/ import_one \/ set_import_key \/ scan_and_merge

ReaderStep ==
    \/ \E u \in Readers, b \in Books : start(u, b)
    \/ \E r \in RequestId :
          \/ cancel(r) \/ undo_cancel(r) \/ swap(r) \/ restart(r)
          \/ \E v \in ResultId : choose(r, v)

SearchStep(k) == run_search_stops(k) \/ finish_search(k)

Next ==
    \/ PollerStep
    \/ ReaderStep
    \/ \E k \in Slot : SearchStep(k)
    \/ \E b \in Books : drop_requests(b)
    \/ \E u \in Readers : delete_user(u)
    \/ \E t \in Tag : client_moves(t)
    \/ \E r \in RequestId : grace_ends(r) \/ removal_ages(r)
    \/ outage_ages
    \/ crash

Spec == Init /\ [][Next]_vars

(* The poller loop runs as long as the server does and finds a client      *)
(* configured again and again, searches end (each has a budget), a link is *)
(* fetched or not, and time passes.  Nothing is asked of readers.          *)
Fairness ==
    /\ WF_vars(PollerStep)
    /\ SF_vars(claim_due_cancels)
    /\ \A k \in Slot : WF_vars(SearchStep(k))
    /\ \A r \in RequestId : WF_vars(grace_ends(r)) /\ WF_vars(removal_ages(r))
    /\ \A t \in Tag : WF_vars(client_moves(t) /\ client[t] = "fetching")

FairSpec == Spec /\ Fairness

-----------------------------------------------------------------------------
(* Safety.                                                                 *)

(* No download is forgotten in the client but those of deleted accounts:   *)
(* whatever it holds, or is still fetching, is named by a request, to      *)
(* follow or to remove, through every swap, cancel, retried add, deletion  *)
(* of the book and restart ("a cancel that lands meanwhile still finds the *)
(* download to remove", begin_download), or was named by a row that went   *)
(* with its reader's account, which nobody removes (auth/users.rs).        *)
NoOrphanDownload ==
    \A t \in Tag : client[t] # "absent" =>
        \/ \E r \in RequestId : /\ exists(r)
                                /\ t \in {request[r].client_tag,
                                          request[r].remove_tag}
        \/ t \in orphaned

(* A download on the removal list, or about to be removed with its files   *)
(* on the strength of a row read earlier, is nobody's current download.    *)
RemovalSparesPick ==
    \A r \in RequestId : exists(r) /\ request[r].client_tag # None =>
        /\ \A q \in RequestId :
              exists(q) => request[q].remove_tag # request[r].client_tag
        /\ poller.at = "remove" => row.remove_tag # request[r].client_tag

(* A file noted as the import of a request was filed from its current      *)
(* pick, although a swap does not clear import_key, and a request is ready *)
(* only with that file in the library.                                     *)
ImportedThePick ==
    \A r \in RequestId : exists(r) =>
        LET q == request[r]
        IN  /\ q.import_key # None => q.import_key = <<r, q.chosen>>
            /\ q.state = "ready" =>
                  q.import_key # None /\ library[q.import_key] > 0

(* While the poller imports a download, nothing but a deletion of the book *)
(* or of the reader's account moves its request, so that every write of    *)
(* the import lands; a retried import files no second copy, unless a       *)
(* restart fell between filing and noting it (place, then set_import_key). *)
OneCopy ==
    /\ poller.at \in {"key", "scan"} =>
          IF exists(id)
          THEN /\ request[id].chosen = row.chosen
               /\ \/ request[id].state = "on_its_way"
                  \/ request[id].book \in deleted
          ELSE row.reader \in gone_readers
    /\ \A t \in Tag : library[t] <= 1 + crashes

(* A request that is looking is being looked for, whoever cancelled, undid *)
(* or retried meanwhile: short of a restart, somebody will answer it.      *)
LookingIsSearched ==
    crashes = 0 =>
        \A r \in RequestId : exists(r) /\ request[r].state = "looking" =>
            \E k \in Slot : search[k] = r

(* Once its grace is claimed a cancel stands for ever, and a cancel that   *)
(* was undone kept its download: an undo racing the end of the grace wins  *)
(* or loses, never both (claim_due_cancels).                               *)
CancelStandsOrNot ==
    [][\A r \in RequestId :
          exists(r) /\ exists(r)' /\ request[r].state = "cancelled" =>
          /\ request[r].cancel_at = None => request'[r].state = "cancelled"
          /\ request'[r].state # "cancelled" =>
                /\ request'[r].client_tag = request[r].client_tag
                /\ request'[r].remove_tag = request[r].remove_tag]_vars

-----------------------------------------------------------------------------
(* Liveness, under FairSpec.                                               *)

(* No removal and no cancellation stays for ever: a download given up or   *)
(* cancelled is eventually out of the client, and its tag forgotten.       *)
RemovalsEnd ==
    \A r \in RequestId :
        /\ []<>(exists(r) => request[r].remove_tag = None)
        /\ []<>(exists(r) => request[r].cancel_at = None)

(* A finished download is eventually in the library or known to be stuck,  *)
(* unless its book or its reader's account is deleted first.               *)
FinishedIsImported ==
    \A r \in RequestId, u \in Readers :
        (/\ exists(r) /\ request[r].reader = u
         /\ request[r].state = "on_its_way" /\ request[r].progress = "full")
            ~> (\/ u \in gone_readers
                \/ /\ exists(r)
                   /\ \/ request[r].state \in {"ready", "stuck"}
                      \/ request[r].book \in deleted)

-----------------------------------------------------------------------------
(* What comments of the code promise, and the code does not do.            *)

(* store.rs: "one live request per reader, book and format". *)
OneLiveRequest ==
    \A r, q \in RequestId :
        /\ live(r) /\ live(q)
        /\ request[r].reader = request[q].reader
        /\ request[r].book = request[q].book
        => r = q
=============================================================================
