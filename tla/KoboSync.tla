------------------------------ MODULE KoboSync ------------------------------
(***************************************************************************)
(* Kobo wireless sync of one reader: db/src/kobo.rs (the books a device    *)
(* may sync and their reading state), db/src/kobo/delta.rs (the per-device *)
(* snapshot, the delta against it and its advance) and the streamed        *)
(* response of server/src/backend/kobo/sync.rs.                            *)
(*                                                                         *)
(* A sync is read, marked, compared, paged, streamed and recorded in       *)
(* separate database calls, while the library and the reading state move   *)
(* on.  The snapshot is recorded in the final poll of the body, before the *)
(* server knows whether the device has it.  A book's metadata and its       *)
(* reading state are the number of changes that landed on each.             *)
(***************************************************************************)
EXTENDS Integers, FiniteSets, FiniteSetsExt

CONSTANTS
    Books,            \* books of the library
    Devices,          \* the reader's Kobos
    SYNC_PAGE_SIZE,   \* changes per response
    MaxTime,          \* bound: seconds of the clock
    MaxEdits,         \* bound: metadata edits and shelf changes
    MaxStates,        \* bound: reading state changes
    MaxFaults,        \* bound: lost bodies, failed writes and resets
    None

ASSUME KoboConstants ==
    /\ IsFiniteSet(Books)
    /\ SYNC_PAGE_SIZE \in Nat \ {0}
    /\ MaxTime \in Nat /\ MaxEdits \in Nat
    /\ MaxStates \in Nat /\ MaxFaults \in Nat
    /\ None \notin Nat \cup Books \cup Devices

Time == 0 .. MaxTime
Stamp == 0 .. MaxTime + MaxEdits      \* last_modified may run ahead of now
Content == [modified : Stamp, edition : 0 .. MaxEdits]
Sent == [modified : Stamp, edition : 0 .. MaxEdits, state : 0 .. MaxStates]

VARIABLES
    now,       \* the server's clock, in seconds
    library,   \* per book: opted in, last_modified, and the reading state
    held,      \* kobo_books_sync: what the server thinks each device holds
    device,    \* what each device really holds
    token,     \* whether the device echoes our sync token
    sync,      \* the sync request of each device, or None
    edits,     \* metadata edits and shelf changes so far
    moved,     \* history: the books that ever left or entered the shelves
    states,    \* reading state changes so far
    faults     \* faults so far, per kind

events == <<edits, moved, states, faults>>
vars == <<now, library, held, device, token, sync, events>>

(* A body lost before or after its final poll, a snapshot write that fails, *)
(* a device signed in anew, with its books or without.                     *)
Fault == {"dropped", "lost", "failed", "signed_in", "wiped"}

AllFaults ==
    faults["dropped"] + faults["lost"] + faults["failed"] + faults["signed_in"]
        + faults["wiped"]

fault(kind) ==
    /\ AllFaults < MaxFaults
    /\ faults' = [faults EXCEPT ![kind] = @ + 1]

HeldRow == [seen : Stamp, synced : -1 .. MaxTime, resend : BOOLEAN]
Change == [kind : {"New", "Changed", "StateChanged", "Removed"},
           book : Books, content : Content \cup {None}]

(* A sync request on its way through the handler: what it has read so far, *)
(* and the page it streams.                                                *)
Request == [step : {"wanted", "marked", "held", "delta", "stream", "sent"},
            wanted : [Books -> Content \cup {None}],
            held : [Books -> HeldRow \cup {None}],
            page : SUBSET Change,
            states : [Books -> 0 .. MaxStates]]

(* None stands for a row, a book or a request that is not there. *)
ASSUME NoneAssumption ==
    None \notin Content \cup Sent \cup HeldRow \cup Request

TypeOK ==
    /\ now \in Time
    /\ library \in [Books -> [wanted : BOOLEAN, modified : Stamp,
                              edition : 0 .. MaxEdits, status_at : Time, position_at : Time,
                              state : 0 .. MaxStates]]
    /\ held \in [Devices -> [Books -> HeldRow \cup {None}]]
    /\ device \in [Devices -> [Books -> Sent \cup {None}]]
    /\ token \in [Devices -> BOOLEAN]
    /\ sync \in [Devices -> Request \cup {None}]
    /\ \A d \in Devices :
           sync[d] # None => Cardinality(sync[d].page) <= SYNC_PAGE_SIZE
    /\ edits \in 0 .. MaxEdits
    /\ moved \subseteq Books
    /\ states \in 0 .. MaxStates
    /\ faults \in [Fault -> 0 .. MaxFaults]

Init ==
    /\ now = 0
    /\ library = [b \in Books |-> [wanted |-> TRUE, modified |-> 0, edition |-> 0,
                                   status_at |-> 0, position_at |-> 0,
                                   state |-> 0]]
    /\ held = [d \in Devices |-> [b \in Books |-> None]]
    /\ device = [d \in Devices |-> [b \in Books |-> None]]
    /\ token = [d \in Devices |-> FALSE]
    /\ sync = [d \in Devices |-> None]
    /\ edits = 0 /\ moved = {} /\ states = 0
    /\ faults = [k \in Fault |-> 0]

-----------------------------------------------------------------------------
(* The library and the reading state move on. *)

(* Mutant: the stamp is the clock, two edits of one second share it. *)
touched_now(b) == Max({now, library[b].modified})

(* last_modified passes every stamp sent before, even in the same second. *)
touched(b) == Max({now, library[b].modified + 1})

touch_book_last_modified ==
    /\ edits < MaxEdits
    /\ edits' = edits + 1
    /\ \E b \in Books : library' = [library EXCEPT ![b].modified = touched(b),
                                                 ![b].edition = @ + 1]
    /\ UNCHANGED <<now, held, device, token, sync, moved, states, faults>>

(* A book enters or leaves the shelves flagged sync_to_kobo. *)
change_shelf ==
    /\ edits < MaxEdits
    /\ edits' = edits + 1
    /\ \E b \in Books : /\ library' = [library EXCEPT ![b].wanted = ~@]
                         /\ moved' = moved \cup {b}
    /\ UNCHANGED <<now, held, device, token, sync, states, faults>>

state_updated_at(b) == Max({library[b].status_at, library[b].position_at})

(* A status chosen on the web or iOS is dated now. *)
set_read_status_tx ==
    /\ states < MaxStates
    /\ states' = states + 1
    /\ \E b \in Books :
           library' = [library EXCEPT ![b].status_at = now, ![b].state = @ + 1]
    /\ UNCHANGED <<now, held, device, token, sync, edits, moved, faults>>

reannounce_state_since(b, at) ==
    [d \in Devices |->
        [held[d] EXCEPT ![b] =
            IF @ # None /\ @.synced >= at THEN [@ EXCEPT !.synced = at - 1]
                                          ELSE @]]

(* A status with its own event time lands if it is not older, and is       *)
(* announced again to the devices that synced since that time.             *)
set_read_status_at_tx ==
    /\ states < MaxStates
    /\ states' = states + 1
    /\ \E b \in Books, at \in 0 .. now :
           /\ at >= library[b].status_at
           /\ library' = [library EXCEPT ![b].status_at = at, ![b].state = @ + 1]
           /\ held' = reannounce_state_since(b, at)
    /\ UNCHANGED <<now, device, token, sync, edits, moved, faults>>

(* A position with its own event time lands if it is not older. *)
upsert_progress_tx ==
    /\ states < MaxStates
    /\ states' = states + 1
    /\ \E b \in Books, at \in 0 .. now :
           /\ at >= library[b].position_at
           /\ library' = [library EXCEPT ![b].position_at = at,
                                         ![b].state = @ + 1]
    /\ UNCHANGED <<now, held, device, token, sync, edits, moved, faults>>

-----------------------------------------------------------------------------
(* One sync request. *)

idle_page == [b \in Books |-> 0]

(* The opted-in books, at the stamps they are sent at. *)
sync_books ==
    [b \in Books |-> IF library[b].wanted
                     THEN [modified |-> library[b].modified,
                           edition |-> library[b].edition]
                     ELSE None]

library_sync(d) ==
    /\ sync[d] = None
    /\ sync' = [sync EXCEPT ![d] =
           [step |-> IF token[d] THEN "marked" ELSE "wanted",
            wanted |-> sync_books,
            held |-> [b \in Books |-> None],
            page |-> {}, states |-> idle_page]]
    /\ UNCHANGED <<now, library, held, device, token, events>>

(* Mutant: nothing is sent again to a device without our token. *)
marked_never(d) == held[d]

(* A device without our token may hold anything: the books it is thought   *)
(* to hold are marked to be sent again, and the mark is committed.         *)
marked(d) ==
    [b \in Books |-> IF held[d][b] # None /\ sync[d].wanted[b] # None
                     THEN [held[d][b] EXCEPT !.resend = TRUE]
                     ELSE held[d][b]]

mark_resend(d) ==
    /\ sync[d] # None /\ sync[d].step = "wanted"
    /\ held' = [held EXCEPT ![d] = marked(d)]
    /\ sync' = [sync EXCEPT ![d].step = "marked"]
    /\ UNCHANGED <<now, library, device, token, events>>

held_snapshot(d) ==
    /\ sync[d] # None /\ sync[d].step = "marked"
    /\ sync' = [sync EXCEPT ![d].step = "held", ![d].held = held[d]]
    /\ UNCHANGED <<now, library, held, device, token, events>>

(* How the delta classifies a book. *)
is_new(h) == h = None \/ h.resend
is_changed(h, content) == ~is_new(h) /\ content.modified > h.seen
is_state_changed(h, content, at) ==
    ~is_new(h) /\ ~is_changed(h, content) /\ at > h.synced

sent_changes(wanted, snapshot) ==
    {[kind |-> "New", book |-> b, content |-> wanted[b]] :
        b \in {x \in Books : wanted[x] # None /\ is_new(snapshot[x])}}
    \cup
    {[kind |-> "Changed", book |-> b, content |-> wanted[b]] :
        b \in {x \in Books : wanted[x] # None
                               /\ is_changed(snapshot[x], wanted[x])}}
    \cup
    {[kind |-> "StateChanged", book |-> b, content |-> wanted[b]] :
        b \in {x \in Books : wanted[x] # None /\
                  is_state_changed(snapshot[x], wanted[x], state_updated_at(x))}}

(* Mutant: a book that left the shelves is not taken off the device. *)
removals_never(wanted, snapshot) == {}

(* What the device holds and no shelf wants. *)
removals(wanted, snapshot) ==
    {[kind |-> "Removed", book |-> b, content |-> None] :
        b \in {x \in Books : wanted[x] = None /\ snapshot[x] # None}}

(* Mutant: every change in one page. *)
page_length_all(n) == n

(* A page is cut at SYNC_PAGE_SIZE. *)
page_length(n) == Min({SYNC_PAGE_SIZE, n})

(* reading_state_for, the delta, and its first page: removals come last. *)
delta(d) ==
    /\ sync[d] # None /\ sync[d].step = "held"
    /\ LET first == sent_changes(sync[d].wanted, sync[d].held)
           last  == removals(sync[d].wanted, sync[d].held)
       IN \E page \in SUBSET (first \cup last) :
              /\ Cardinality(page) = page_length(Cardinality(first \cup last))
              /\ page \cap last # {} => first \subseteq page
              /\ sync' = [sync EXCEPT ![d].step = "delta", ![d].page = page]
    /\ UNCHANGED <<now, library, held, device, token, events>>

(* The reading states of the page are read once more, for the emit. *)
load_sync_page_states(d) ==
    /\ sync[d] # None /\ sync[d].step = "delta"
    /\ sync' = [sync EXCEPT ![d].step = "stream",
           ![d].states = [b \in Books |-> library[b].state]]
    /\ UNCHANGED <<now, library, held, device, token, events>>

(* record_synced, per row. *)
upsert_synced(h, c) ==
    [seen |-> c.content.modified, synced |-> now, resend |-> FALSE]
touch_state_changed(h, c) == [h EXCEPT !.synced = now]

recorded(h, c) ==
    CASE c.kind \in {"New", "Changed"} -> upsert_synced(h, c)
      [] c.kind = "StateChanged" -> IF h = None THEN None
                                    ELSE touch_state_changed(h, c)
      [] c.kind = "Removed" -> None

record_synced(d) ==
    [b \in Books |->
        IF \E c \in sync[d].page : c.book = b
        THEN recorded(held[d][b], CHOOSE c \in sync[d].page : c.book = b)
        ELSE held[d][b]]

(* The final poll of the body: the snapshot is advanced, then the closing  *)
(* bracket goes out. A failed advance is logged and the body still ends.   *)
sync_stream_close(d) ==
    /\ sync[d] # None /\ sync[d].step = "stream"
    /\ \/ /\ held' = [held EXCEPT ![d] = record_synced(d)]
          /\ UNCHANGED faults
       \/ fault("failed") /\ UNCHANGED held
    /\ sync' = [sync EXCEPT ![d].step = "sent"]
    /\ UNCHANGED <<now, library, device, token, edits, moved, states>>

(* The device applies a whole body. *)
applied(h, c, state) ==
    CASE c.kind \in {"New", "Changed"} ->
             [modified |-> c.content.modified, edition |-> c.content.edition,
              state |-> state]
      [] c.kind = "StateChanged" -> IF h = None THEN None
                                    ELSE [h EXCEPT !.state = state]
      [] c.kind = "Removed" -> None

body_applied(d) ==
    [b \in Books |->
        IF \E c \in sync[d].page : c.book = b
        THEN applied(device[d][b], CHOOSE c \in sync[d].page : c.book = b,
                     sync[d].states[b])
        ELSE device[d][b]]

receive(d) ==
    /\ sync[d] # None /\ sync[d].step = "sent"
    /\ device' = [device EXCEPT ![d] = body_applied(d)]
    /\ token' = [token EXCEPT ![d] = TRUE]
    /\ sync' = [sync EXCEPT ![d] = None]
    /\ UNCHANGED <<now, library, held, events>>

-----------------------------------------------------------------------------
(* Faults. *)

(* The connection is lost, or the server restarts, before the final poll:  *)
(* the body is dropped and nothing is recorded.                            *)
drop_body(d) ==
    /\ sync[d] # None /\ sync[d].step # "sent"
    /\ fault("dropped")
    /\ sync' = [sync EXCEPT ![d] = None]
    /\ UNCHANGED <<now, library, held, device, token, edits, moved, states>>

(* The connection is lost with the last bytes still in the server's        *)
(* buffers: the final poll has run and nobody reads them.                  *)
lose_body(d) ==
    /\ sync[d] # None /\ sync[d].step = "sent"
    /\ fault("lost")
    /\ sync' = [sync EXCEPT ![d] = None]
    /\ UNCHANGED <<now, library, held, device, token, edits, moved, states>>

(* A new sign-in loses the token, a factory reset the books as well. *)
reset_device(d) ==
    /\ sync[d] = None
    /\ token' = [token EXCEPT ![d] = FALSE]
    /\ \/ fault("signed_in") /\ UNCHANGED device
       \/ /\ fault("wiped")
          /\ device' = [device EXCEPT ![d] = [b \in Books |-> None]]
    /\ UNCHANGED <<now, library, held, sync, edits, moved, states>>

Tick ==
    /\ now < MaxTime
    /\ now' = now + 1
    /\ UNCHANGED <<library, held, device, token, sync, events>>

Sync(d) ==
    \/ library_sync(d) \/ mark_resend(d) \/ held_snapshot(d) \/ delta(d)
    \/ load_sync_page_states(d) \/ sync_stream_close(d) \/ receive(d)

Next ==
    \/ touch_book_last_modified \/ change_shelf
    \/ set_read_status_tx \/ set_read_status_at_tx \/ upsert_progress_tx
    \/ \E d \in Devices : \/ Sync(d) \/ drop_body(d) \/ lose_body(d)
                          \/ reset_device(d)
    \/ Tick

Spec == Init /\ [][Next]_vars

(* A Kobo syncs again and again, and a request the server took ends. *)
FairSpec == Spec /\ \A d \in Devices : WF_vars(Sync(d))

-----------------------------------------------------------------------------
(* Properties. *)

(* What the plain delta would send this device now. *)
owed(d) ==
    {c.book : c \in sent_changes(sync_books, held[d])
                       \cup removals(sync_books, held[d])}

(* The faults that leave the server mistaken about a book for good: a body *)
(* nobody read after its final poll, and, for a book that left or entered  *)
(* the shelves, a failed snapshot write or a wiped device (only the wanted *)
(* books are marked).  Metadata edits beside those faults mistake nothing. *)
mistaken(b) ==
    \/ faults["lost"] > 0
    \/ b \in moved /\ faults["failed"] + faults["wiped"] > 0

(* Between syncs, a device that has our token and differs from the shelves *)
(* or shows old metadata is owed the difference: no edit, however it fell  *)
(* between the read and the record of a sync, is taken for delivered.      *)
DifferenceIsOwed ==
    \A d \in Devices : sync[d] = None /\ token[d] =>
        \A b \in Books :
            LET now_holds == device[d][b] IN
            \/ mistaken(b)
            \/ b \in owed(d)
            \/ ~library[b].wanted /\ now_holds = None
            \/ library[b].wanted /\ now_holds # None
                 /\ now_holds.edition = library[b].edition

(* A device that keeps syncing ends up with the opted-in books at their    *)
(* current metadata, whatever pages, edits, dropped bodies, new sign-ins,  *)
(* factory resets and failed records came first: the continue loop ends    *)
(* and no resend mark stays set.  Edits and faults are bounded, so a       *)
(* device that converges again and again has converged after the last.     *)
DeviceConverges ==
    \A d \in Devices, b \in Books :
        []<>(\/ mistaken(b)
             \/ ~library[b].wanted /\ device[d][b] = None
             \/ /\ library[b].wanted /\ device[d][b] # None
                /\ device[d][b].edition = library[b].edition)

(* delta.rs: a book is StateChanged when "the user's reading state (status *)
(* / position) has moved since this device last synced", so that a device  *)
(* shows the state there is or is owed it.                                 *)
MovedStateIsOwed ==
    \A d \in Devices, b \in Books :
        sync[d] = None /\ token[d] /\ library[b].wanted /\ device[d][b] # None =>
            \/ b \in owed(d)
            \/ device[d][b].state = library[b].state
=============================================================================
