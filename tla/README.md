# A TLA+ model of omnibus

Omnibus is a self-hosted library server: it indexes a directory of ebooks and
audiobooks into SQLite, serves them to a web front end, an iOS app, Kobo and
KOReader devices, OPDS and MCP clients, and can fetch a wished book through an
indexer and a download client.  Nearly all state is in SQLite tables
(`db/migrations`), written from the handlers of `server/src/backend` through
`db/src`; what is in memory is the background worker, a handful of limiters,
and the places of the background loops.  The iOS app keeps an outbox of its own.

This directory models the seven parts in which several actors work on shared
state step by step, checks them with TLC, and proves with TLAPS every safety
property the runs check, for every value of the constants.

## Inventory

`PROJECT.json` lists every component with its files; this table is the part
with a protocol in it.

| Component | State | Operations | Talks to | Hard part | Correct means | Module |
|---|---|---|---|---|---|---|
| Background worker (`db/src/worker`) | `resource_locks`, semaphores, `completions`, `progress`, `completion_timings`, `background_tasks` rows | `post`, `run`, `await_completion`, `progress_snapshot`, `set_task_owner`, RAII guards | posted to by the HTTP handlers, the periodic scan, the import; handlers call indexer, converters, caches | interleaving of futures, lock-map pruning, panics, callers that time out | equal keys exclude each other, nothing leaks, answers are true, everything ends | `Worker` |
| Book requests (`db/src/requests`) | `book_requests`, `book_request_results`, running searches, the poller's place and failure clock, the client's jobs, filed files | start, choose, cancel, undo, swap, retry; search; claim, remove, add, follow, import | indexer, download client, library scan (worker), merge, deletion of books and accounts | clicks between two steps of a pass, restarts, an unreliable client, grace and age limits | no download lost while its reader has an account, mistaken, removed while wanted or filed twice; every removal and import ends | `BookRequests` |
| Reading progress (`db/src/progress`, `db/src/read_status`) and KOReader pushes (`db/src/koreader`) | positions, sitting marks, quarter-hour slots, read status | upsert, observe_percent, mark_started, set status, attach a derived percent or Kobo span | web, Kobo, KOReader and iOS writers | late, replayed, reordered writes; clocks that run ahead; derivations that end after the reader moved on | newest wins, one row is one moment, a stretch is counted once, only a chosen `unread` gives way to a position | `ReadingState` |
| Kobo sync (`db/src/kobo`) | `kobo_books_sync` per device | `mark_resend`, `delta`, `record_synced`, `reannounce_state_since` | device, progress, shelves | a response dropped, lost or not recorded; changes between delta and record; pages | what differs is still owed; a device converges to its shelves | `KoboSync` |
| iOS offline sync (`omnibus-ios/.../Offline`) | op table, current pass, attempts | enqueue, drain, sweep, park, hold aside, discard | the HTTP API | joined and chained drains, coalescing under a pass, kills | nothing forgotten, order in a kind, an awaited drain did its work, the queue empties | `Outbox` |
| Merge and undo (`db/src/merge`) | `merge_log`, `merged_uuids`, all per-book tables | merge, undo | deletion, requests, scan | undo out of order, after later merges and writes | undo restores what the merge took; annotations, ground and notes are kept on the way | `Merge`, and `Library` for the next scan |
| Library scan, index, sync (`db/src/indexer`, `db/src/sync`) | `books`, `book_files`, `merged_uuids`, the walk in flight | walk, diff, move matching, attach, sync | worker, merge, deletion, the file system | files and rows that change between walk, diff and write; a mount that disappears | one book per file, index and disk agree, a book follows its file | `Library` |
| Deletion, missing files (`db/src/deletion`, `missing_files.rs`) | rows, files, the missing flag | delete items, unlink, GC, backfill | requests, merge, scan | purge in two steps, unlink after commit | no dangling work; the flag follows the last file | `Library`, `drop_requests` in `BookRequests` |
| Sessions and accounts (`db/src/auth`, `server/src/auth`) | sessions, tokens, device codes | login, revoke, impersonate, return | every handler | two sessions traded for one another | never both, never neither | not modelled, but `delete_user` in `BookRequests` |
| In-memory limiters | buckets, cooldowns, `StartLog` | allow, record, clear | request handlers | check and record apart | limits hold under concurrency | not modelled |
| Suggestions cache | markers and rows per book | enqueue, resolve | worker | stale `pending` | a lookup is retried after failure | not modelled |

How they interact: handlers post to the worker and wait for it; a library scan
runs in the worker under its library's key, so `Library` has one scan at a time
and `BookRequests` asks for one after an import; a merge and a deletion change
the tables a scan in flight has read, so `Library` has both; all position
writers, the iOS outbox included, meet in `ReadingState`, whose times are what
`KoboSync` compares with its snapshot; a deleted book, and a deleted account,
take their requests along (`drop_requests`, `delete_user`).

## Modules

| Module | What it is |
|---|---|
| `Worker` | the worker: one future per task, its callers and pollers |
| `KeyedExecutor` | abstract: jobs with keys and classes; what `post` promises |
| `WorkerRefinement` | the mapping from `Worker` to `KeyedExecutor` |
| `BookRequests` | the request table and its five kinds of actor |
| `ReadingState` | one reader's place in one book, per format |
| `KoboSync` | one reader's Kobos and their snapshots |
| `Outbox` | the op queue of the iOS app and its passes |
| `Merge` | merging and undoing, over one table of each class |
| `Library` | the index of one scan root, and what happens on disk |
| `WorkerProofs`, `BookRequestsProofs`, `ReadingStateProofs`, `KoboSyncProofs`, `OutboxProofs`, `MergeProofs`, `LibraryProofs` | TLAPS: the inductive invariant of each, and what follows from it |
| `NumberFacts` | TLAPS: least and greatest members of sets of numbers, for the other proofs |
| `MC...` | instances for TLC |

Definitions whose comment begins with *Mutant* are the wrong versions of the
definition after them (a dropped guard, a missing reset).  They are used by no
specification: each exists to show that a property would notice that mistake
(`PROJECT.json`, `mutants`).

### Worker

`pc[i]` follows the body of the spawned future of `Worker::post` and
`Worker::run`.  Its values in order, on the happy path:

    start    persist_task_start        insert the history row
    entry    clone_resource_lock       clone the key's Arc<Mutex> under the map lock
    lock     lock_owned                join its FIFO queue
    queued   acquire_permit            at the head: take or queue for a permit
    permit   permit_granted
    running  execute / panic           the handler (report_progress_update meanwhile)
    posting  post_follow_up, write_terminal_progress
    record   record_completion
    unlock   unlock                    drop(_resource_guard) ...
    drop_arc drop_arc                  ... and its Arc
    prune    prune_resource_lock       remove the map entry if nobody else has a clone
    release  release_permit            permits drop when run returns
    finish   persist_task_finish       close the history row
    send     send_outcome              tx.send
    guard    drop_progress_guard       locals drop in reverse order of declaration
    slot     drop_prune_guard
    close    drop_sender
    done

A panic goes `running -> release -> unlock -> drop_arc -> guard -> slot ->
close`: unwinding drops the permit, then the mutex guard, and skips pruning,
the metrics, the history and the send.  A mutex is named by the task that
created it, so a mutex re-created after pruning is a different one: that is
what makes `MutualExclusion` a statement about `prune_resource_lock`.  The
strong count is the number of clones `arc[i]`.

Abstractions: a handler is one step with any outcome its variant can return,
preceded by any number (`MaxReports`) of progress reports; the retention clock
of the progress map is a free choice of what expires; a database write
succeeds or fails freely (`WriteResults`); follow-ups outside `Variants` or
beyond `MaxTasks` are dropped.  tokio's mutex and semaphore are FIFO queues,
as their documentation says and the code relies on (`give_back` is external).

`KeyedExecutor` says what a poster may rely on.  `WorkerRefinement` maps a task
to *queued* until its handler is entered, *running* until its terminal state is
written or it panics, *ended* after.

### BookRequests

The state is the two tables as records, plus what lives outside SQLite: the
searches spawned by handlers, the poller's position in its pass *with the rows
it has read*, its failure clock, the client's jobs and the files filed; and one
history, `orphaned`, the tags of the rows that went with an account.  Every
statement or client call of a pass is a step, so a reader's click, a deletion
or a restart can land between any two.  The conditions of the `UPDATE ...
WHERE` statements are `may_cancel`, `may_undo`, `may_swap`, `claimable`,
`same_pick`.

| Code | Action |
|---|---|
| `store::start`, `choose`, `restart`; `change::cancel`, `undo_cancel`, `swap` | `start`, `choose`, `restart`, `cancel`, `undo_cancel`, `swap` (with the handler's `spawn_search`) |
| `search::run_search`, `store::finish_search` | `run_search_stops`, `finish_search` |
| `poller::poll_tick`, `poll_once`, `pass` | `claim_due_cancels`, `remove_pending`, `remove_call`, `begin_download`, `hand_over`, `mark_on_its_way`, `add_refused`, `follow_downloads`, `write_verdict`, `poll_once`, `poll_tick_unconfigured`, `stop_downloading`, `next_phase` |
| `import::import_one`, `scan_and_merge` | `import_one`, `set_import_key`, `scan_and_merge` |
| `deletion::purge::drop_requests` | `drop_requests` |
| `auth::delete_user`, and `ON DELETE CASCADE` of `book_requests.user_id` | `delete_user` |
| qBittorrent (external) | `client_moves`: a link is fetched or not, a download ends, fails or is cleaned up |
| the clock | `grace_ends`, `removal_ages`, `outage_ages` |
| a restart of the server | `crash` |

Abstractions: times are the outcome of the comparison the code makes (a grace
is ahead or due, a removal or an outage recent or overdue); how long a download
has been idle is a free choice of `judge`; a release is its guid; versions the
ranking rejects are never offered and are left out; the format is one of the
book's identity.

Assumptions: the client keeps at most one job per tag; a link it is still
fetching is shown before `APPEAR_SECS` have passed (`removal_ages`); SQLite
writes succeed, except `set_import_key`, whose failure the code handles.

### ReadingState

One reader, one book.  A place is a number, and a CFI, a percent and a Kobo
span taken at one place are that number, so a derivation copies it.

| Variable | Code |
|---|---|
| `row` | `reading_progress`: the position and its event time, per format |
| `mark`, `credited` | `reading_progress_marks`, the sum of `reading_progress_slots` |
| `status` | `book_read_status`, with `auto` for one a position began |
| `spawning`, `walk`, `enrich` | the derivations between an accepted write and their last transaction |
| `delivered`, `heard`, `chosen` | histories: the writes offered, what the ledger heard, the newest status the reader chose |

| Code | Action |
|---|---|
| `post_progress` (web, iOS), the Kobo state PUT, the KOReader push | `post_progress`, `persist_bookmark`, `koreader_push`: each with clamp, `WHERE` clause, teardown guard, `mark_started` and observation, one transaction |
| `set_read_status_tx`, `set_read_status_at_tx` | `choose_status`, `koreader_status` |
| `spawn_epub_percent_derivation`, its walk, `observe_percent` | `spawn_epub_percent_derivation`, `attach_derived_percent`, `observe_attached_percent`, `derivation_fails` |
| the Kobo sync response's derivation | `read_pending_web_cfi`, `attach_derived_kobo_location`, `observe_settled_percent` |
| restart, clock | `Crash`, `Tick` |

What a write may carry is what `validate` lets through: an epub place with a
CFI, a percent or both, a Kobo bookmark with a percent, a span or both, an
audio place without a percent, so that the ledger, which observes percents,
hears of epub places only.  KOReader can say `reading` and `complete`, never
`unread`.  Event times are whole seconds: two writes of one second are of one
moment, for the code and for the properties.

Not modelled: reading sessions, hidden series, the Kobo's own statistics,
playback rate, scaling by the spine, `clear_sitting_clock`.

### KoboSync

A sync of device `d` is `library_sync` (reads the wanted books), `mark_resend`
(a device without our token), `held_snapshot`, `delta` (with its page),
`load_sync_page_states`, `sync_stream_close` (with `record_synced`, which the
final poll of the body runs) and `receive`; `continue` pages are the next
sync.  `held` is `kobo_books_sync` with its `seen`, `synced` and `resend`;
`device` is what the Kobo really has.  Edits, shelf changes and reading states
land between any two steps; `moved` remembers the books whose shelves changed.
Faults: the body is dropped before its final poll (`drop_body`), lost after it
(`lose_body`), the recording fails, the device is signed in anew or wiped
(`reset_device`).  Contents are counted: an edition or a state is the number of
changes that made it.

Not modelled: annotations sent down, downloads, kepub conversion, pairing.

### Outbox

A step is what runs between two `await`s of the Swift actors.

| Code | Action |
|---|---|
| `enqueue...` with its coalescing and folding | `record`: a value replaces its kind, a create and an edit append, a delete replaces, a patch folds |
| `drain`: ceiling, join or chain | `drain_asked`, `drain` |
| `sweep`: read, replay, delete, next read | `listOps`, `replay`, `deleteOps`, `sweep_ends` |
| transport and server errors | `stop` (offline, signed out, cancelled), `noteOpFailure` and `failOpsReferencing` (refused), `noteOpAttempt` and `park` (a 5xx, with the replay cap) |
| `releaseCurrent` | `releaseCurrent` |
| `discardRejectedOps`; the system | `discardRejectedOps`; `killed` |

A write is its op's id; `carries` are the writes folded into an op, and
`landed` the ones the server has taken.  Not modelled: the replica
(`applyResponse`), the legacy kind of ratings, `clearOps` at sign-out, and a
request that timed out on the device and that the server takes later, when the
op has been sent again or a newer one of its kind after it.

### Merge

`db/src/merge` treats some thirty per-book tables in a few ways; the model has
one table of each way: files and their guards in `merged_uuids` (`holder`,
`guard`), ordered links with the key computed from them (`authors`, `sort`),
the current value by date (`progress`), curated rows settled by date or field
by field (`opinion`: a read status, and a review of stars, a text and private
notes; the spoiler flag goes with the text), a counter that is added and taken
apart (`ground`), rows that just move (`event`), and `merge_log` with what each
merge took and settled (`log`). Actions: `merge_books`, `undo_merge` (with
every reason to refuse in `UndoConflict`) and the reader's `upsert_progress`,
`set_opinion`, `add_ground`, `create_annotation`.

`NothingLost` follows what the reader said in reviews (`noted`).  Notes are
joined and stay in a review.  Of two stars or two texts a merge keeps one: the
other is in its log entry, from which an undo puts it back, and is gone for good
when the survivor is merged into a third book, whose delete takes the entry
along; `merge_books` then takes it out of `noted` (`released`), as
`transaction.rs` says of "the reviews only they held".  An entry whose undo is
refused because the review was edited since keeps its copy all the same.
`RoundTrip` compares the tables of `contents`, without the guards: an undo gives
the attachments of a book their rows of `merged_uuids` back without the key of
the file (`restore_attach_ledger`), which `Library` is about.

Not modelled: rewrites of a value by itself, cleared fields and deleted reviews,
`created_at`, metadata overrides, identifiers,
series and languages, covers and the search index, sitting clocks, shelves and
wishlists, cross-format links, and a deletion or a scan between merge and undo.

### Library

`disk` is the folder, `books`, `files`, `ledger` the tables `books`,
`book_files` and `merged_uuids`; `step` and `pass` say how far a scan is and
what it has read.

| Code | Action |
|---|---|
| the walk and the read of the books with their own files | `StartScan`, `Walk`, `WalkMisses` |
| `list_merged_rows_for_formats`, `diff_library`, `check_mass_missing` | `Diff` |
| `sync_books`: removed, attached, moved, changed, new | `Sync`, from the operators of the same names |
| `gc_books_missing_files` | `GcSelect`, `GcDelete` |
| an error anywhere | `ScanFails` |
| people | `AddFile`, `EditFile`, `MoveFile`, `CopyFile`, `RemoveFile`, `Read`, `RetentionPasses` |
| `merge_books`, `delete_book_items` and the unlink after it | the same names, `Unlink` |
| a restart, with `backfill_missing_files_flags` | `Restart` |

A stat stands for size and modification time; two files have the same one only
when one is a copy of the other.  An id stands for a uuid too; a step that needs
new ones waits until as many are `Spare`, and a rewritten file until a stat is
in `FreshStats`, so ids and stats are bounds like `LastPath`, the number of
paths.  `calm` and `owner` are histories: how many undisturbed scans there have
been, and which book each file must be found in again.  An undisturbed scan
gives a file an owner, unless it declined a move (`landed`); a scan that saw a
changing or incomplete library gives none, and keeps those it leaves with their
files (`Backs`).  `Troubles` names six steps the code takes that the index does
not always survive.  They are taken in the model as in the code, and a third
history, `troubled`, remembers them: the properties and theorems about files,
books and the disk speak of every state before the first of them
(`untroubled`), and what they break after it is described below.

Not modelled: audiobooks with their groups and parts, several roots, rows
without a stat, parse errors, covers, search index, taxonomy, ordinals,
physical copies, undo.

## Runs

| Run | Question | Bounds, and why they suffice |
|---|---|---|
| `worker_answers` | answers, history, terminal states, every call returns | 1 task of 3 variants with every outcome, 2 callers, 1 poller, writes that fail: a second caller after the first took the receiver, an eviction before the question |
| `worker_refinement` | exclusion, leaks, and that it implements `KeyedExecutor`, fairness included | 3 tasks: scans of two kinds and the backfill one posts under its own key, 1 permit.  A third task arrives while a second clones a mutex and the first prunes it; scans under two keys contend for the permit; any may panic |
| `requests_safety` | no download lost but with its reader's account, mistaken, removed while wanted, filed twice; no request waits for a search nobody runs | 1 request, 2 versions of 2 releases, 2 searches, 1 client fault or 1 restart: a second pick while the first is still being removed is the longest chain one row can hold, because a swap waits for the removal list to be free |
| `requests_liveness` | removals and imports end | 1 request, 2 versions of 1 release, 1 client fault, 1 restart |
| `reading` | newest wins, one moment per row, a sitting counted once, the newest choice of status stands, replays free | epub and audio, 2 places, 2 files, times 0 to 2 and an idle gap of 1, so that observations come out of order inside a sitting and a new one begins, a clock 1 ahead, 3 messages, 1 restart, the statuses `unread` and `finished`: three messages are a write, its rival and a replay, with a derivation in flight for any of them, or `unread`, the position that ends it, and a late choice |
| `kobo` | nothing that differs is taken for delivered; convergence | 2 books, 1 device, pages of one, 2 edits or shelf changes, 1 state, 1 fault: a page boundary between two changed books, and a change between every two steps |
| `outbox` | one pass, nothing forgotten, order, the promise of `drain`, the queue empties | a kind of each sort, a writer and the retry timer, reads of 2, 2 attempts, 2 writes, 2 faults: a write coalesced or folded under a pass that holds its copy, a full read, a cap reached |
| `merge` | round trip, nothing lost, events at home, the last merge undoable | 3 books, 3 merges, 3 writes, one curated table of each kind: chains (A into B into C), two sources in one target, undo in either order, a merge after an undo; a text on each of two books, dropped from the review and then with the log.  States that differ by swapping the two books that start with an author, or the two authors, are checked once: nothing tells them apart |
| `library` | until one of the `Troubles` has come: one book per file, index agrees, next scan quiet, book follows file | 4 paths (`LastPath`) in 2 formats, 2 works, 9 ids, three first libraries, a breaker at 1 file, 2 operations anywhere in the steps of a scan, 1 walk that misses files; scans without limit: a file moved and its book merged, an attachment edited under a walk, a book that lost one file and is deleted.  More paths and operations are left to the theorems |
| `requests_onelive`, `kobo_state`, `library_twins` | comments the code does not keep | below |

Readers, and books in `BookRequests`, are one each: requests of different books
share only the poller, which works through them one row at a time, and the
limit of live requests, a plain count.  `requests_onelive` uses two requests.

Deadlock is checked where the system never stops: `Worker` ends in `Quiescent`,
the poller of `BookRequests`, the syncs of `KoboSync` and the retry loop of
`Outbox` go on.  In `ReadingState`, `Merge` and `Library` the bounded inputs
run out, so those runs say `CHECK_DEADLOCK FALSE`.

### Fairness

*Worker.*  Weak fairness of each future and of each waiting caller: the tokio
runtime polls whatever can progress, and a handler ends, since each is bounded
work or a call with a time-out of its own.  FIFO queues make weak fairness
enough; the strong fairness of `KeyedExecutor`'s `Start` is a consequence that
the refinement run checks.  Nothing is assumed of posters, pollers or time-outs.

*BookRequests.*  Weak fairness of the poller's steps (one loop, spawned at
boot, which sleeps and ticks), of searches (each has a budget of time), of the
clock, and of the fetching of a link (fetched or given up).  Strong fairness of
`claim_due_cancels`: the admin may turn the client off and on, and a tick that
finds it configured happens again and again.  A client that fails for ever is
excluded by `MaxFaults`; without it no removal can be promised.  Nothing is
assumed of readers, or of a download's progress.

*KoboSync.*  Weak fairness of each device's `Sync`: a Kobo syncs again and
again, and a request the server took ends.

*Outbox.*  Weak fairness of each caller's pass (actors run what is ready,
requests have time-outs) and of the timer's `drain_asked`, which
`Connectivity.startRetrying` repeats while something waits.  Nothing is assumed
of screens, and `MaxFaults` ends the failures.

`ReadingState`, `Merge` and `Library` state safety only.

## What the runs found

Three comments say more than the code does, each with a run that shows it.

* **Two live requests for one book** (`requests_onelive`).  `store.rs` says one
  per reader, book and format; `restart` of a request stuck on its search does
  not look for a newer one.
* **A moved reading state is swallowed** (`kobo_state`).  `delta.rs` calls a
  book `StateChanged` when its state moved since this device last synced; a
  state that moves between the read of the page and its recording is older than
  the stamp recorded, and is not sent until it moves again.
* **Twins that return** (`library_twins`).  A book whose own file is gone is
  rewritten in place for each of its files that returns in one scan; with two
  formats the first keeps neither the key nor a ledger row, and the next scan
  makes a second book of it.

The models show more that no run is kept for:

* *Worker.*  A panicked task is not counted, though `metrics.rs` says "on every
  terminal transition".  Posting order is not running order (`handlers.rs`
  relies on covers before thumbnails): each future awaits a database insert
  before it queues.  After a restart history rows stay `running`.
* *BookRequests.*  `finish_search` says a request restarted meanwhile keeps its
  state; one restarted while looking takes the old search's outcome.  A
  given-up version "never offered again" comes back with a retry, which deletes
  the rows that remember it.  After a restart a request stays `looking` until
  its reader retries (`LookingIsSearched` is stated without restarts), and a
  restart between filing and noting a file can leave a second copy (`OneCopy`
  allows one per restart).  Deleting an account deletes its requests by cascade,
  and with them the only names of their downloads: a job that the client has
  then stays there, for no pass will remove it.  `NoOrphanDownload` says that
  these (`orphaned`) are the only ones.
* *ReadingState.*  A restart between the attachment of a derived percent and
  its observation leaves that stretch uncredited; `ReplayIsFree` is stated for
  rows whose percent the ledger has heard of.  A KOReader position turns a
  chosen `unread` into `reading` as `start_unread_at_tx` says, and this
  `reading` counts as chosen (`auto_started` is 0): a status chosen offline at
  an earlier moment is refused when it arrives later, though a `reading` that a
  position began on a book without a status would have given way to it.
* *KoboSync.*  A body lost after its final poll has been recorded, so what it
  held counts as delivered.  A new book whose recording fails and which leaves
  the shelf before the next sync stays on the device: the snapshot never had
  it.  A wiped device is not sent again a book that was off the shelves while
  its rows were marked.  `mistaken` names these three cases, the last two for
  books that ever moved (`moved`) only: a metadata edit beside a failed record
  or a reset is still delivered, and `DeviceConverges` says so.
* *Outbox.*  An op held aside while the sweep holds its copy of the row can
  still be sent in that sweep.
* *Merge.*  After writes on the survivor an undo may give the source its old
  position or none (`changed_since`); `RoundTrip` speaks of undisturbed merges.
* *Library.*  The six `Troubles`.  After each of them `OneRowPerFile`,
  `IndexAgrees` or `BookFollowsFile` can fail, some at once and some two or
  three operations on, so the properties end where the first of them comes.
  *Two files of one format*, or an attachment and a file of one format, in
  merged books (`transaction.rs` allows it) compete for one slot: when the
  attached one is edited its slot is held, so it becomes a book of its own, its
  old row stays, and it is a file of both; when the other is edited its new row
  replaces both.  *A path used before* by an attached file evicts that file's
  ledger row, because handles are derived from paths.  *A guard is lost* when a
  merge takes the source's own file for an attachment because another
  attachment has its format, and the next scan does not know the file.  *Twins
  return*, above.  *A key is taken over*: `moved.rs` says that a move to a
  path already spoken for is skipped, but asks only the ledger when the file
  that moves is an attached one, and only the books when it is a book's own.  A
  book that lost its own file and lives on by its attachment still has the old
  path for key; another book's attached file moves there, and when that file is
  edited the next scan writes it to the first book too, so that one file has
  two.  The same comes of a book's own file that moves to a path of the ledger,
  and of an *unread attachment*, which the index lost and which cannot be read
  when it returns: it becomes a book, and its old ledger row stays.

  `BookFollowsFile` ends for an attached file that a walk misses: the scan
  takes it out of the ledger, and when it is back its title and author choose
  its book anew.

  A move that is skipped is skipped again by every scan, so `settled` is never
  reached while it lasts, and a third file can suffer: a book whose own file is
  gone lives on by an attachment, a file comes to its old path and its move is
  skipped, that file is edited, which makes it new instead of moved, and the
  scan gives the book to it and its attachment to a book of its own.  It takes
  three paths of one format and four operations.  `BookFollowsFile` therefore
  asks for a book only for the files that a scan without a skipped move has
  placed.

  Also: one scan is not always enough, which is why `settled` means two; a file
  renamed during a walk may be seen at neither path; a book merged while its
  files are missing leaves them without a guard; a deletion that commits during
  a scan is undone by it if the file is still there; and the purge reads its
  victims before it deletes them.

## What is proved

All theorems are of the form `Spec => []P` (`Spec => P` for an action
property), for every value of the constants: any number of tasks, callers,
requests, books, files, devices, writes, faults and restarts, not those of a
run.

| Module | Theorem | States |
|---|---|---|
| `WorkerProofs` | `TypeCorrectness`, `HandlersExclude`, `AnswersAreTrue`, `NothingIsLeft` | `TypeOK`, `MutualExclusion`, `AnswersTruthful`, `NothingLeftBehind` |
| | `Implements` | `Spec => Executor!Spec`, the refinement without its fairness |
| `BookRequestsProofs` | `TypeCorrectness`, `NoneForgotten`, `SomebodyLooks`, `PickStays`, `PickIsImported`, `FiledOnce` | `TypeOK`, `NoOrphanDownload`, `LookingIsSearched`, `RemovalSparesPick`, `ImportedThePick`, `OneCopy` |
| | `CancelStands` | `CancelStandsOrNot`, of steps |
| `ReadingStateProofs` | `TypeCorrectness`, `NewestWins`, `OneMoment`, `StatusStands`, `GroundCreditedOnce` | `TypeOK`, `NewestPositionStands`, `HalvesOfOneMoment`, `StartedOrChosen`, `SittingCreditsGround` |
| | `ReplaysAreFree` | `ReplayIsFree`, of steps |
| `KoboSyncProofs` | `TypeCorrectness`, `NoEditLost` | `TypeOK`, `DifferenceIsOwed` |
| `OutboxProofs` | `TypeCorrectness`, `OnePass`, `NoWriteForgotten`, `PromiseKept` | `TypeOK`, `OnePassAtATime`, `NothingForgotten`, `DrainKeepsPromise` |
| | `OrderWithinKind` | `KindInOrder`, of steps |
| `MergeProofs` | `TypeCorrectness`, `NoneStranded`, `AllKept`, `NewestUndoable`, `ComesBack` | `TypeOK`, `EventOnItsBook`, `NothingLost`, `LastMergeUndoable`, `RoundTrip` |
| `LibraryProofs` | `TypeCorrectness`, `OneFileOneBook`, `IndexMatchesDisk`, `NextScanIsQuiet`, `BooksFollowFiles` | `TypeOK`, `OneBookPerFile`, `IndexAgrees`, `RescanIsQuiet`, `BookFollowsFile` |

Each module proves an inductive invariant first (`IInv` in an `Invariance`
theorem; in `LibraryProofs` its parts, `Typed`, `Agreed`, `Whole` and
`Traced`, one on the other); there is a lemma per action, and within it each
conjunct the action can disturb has its step.  What the invariants add to the
properties is where the argument lies.

*Worker.*  Exclusion does not say that the two tasks have the same mutex.
`ClonesInMap`: whoever has a clone has the mutex the map has *now*; pruning
keeps that because it removes an entry only when no clone of it exists.
`LockHolders`: a task past its lock is the head of that mutex's queue, so two
running tasks of one key are both the head of one queue.  `Tidy` says which
permit, queue place and map entry belongs to which control point, `Told` what
the progress entry, the channel and the answer of each caller can be: their
theorem is `Order`.  `Implements` maps every action to one of `KeyedExecutor`
or a stutter.

*BookRequests.*  The poller acts on rows read earlier, so the invariant says
what it may still rely on of each (`RemovalRead`, `handing`, `Following`,
`ImportRead`), whatever a reader, a search or a deletion did meanwhile, also
when the row is gone with its account (`Gone`), and what a row says of itself
(`Shape`) and of its versions, the client and the library (`Linked`).  `Copies`
counts the files filed by restarts.

*ReadingState.*  A derivation in flight carries the second it began from, and
what it derives was the row's at that second (`Derivations`); the ledger is
described by the set of all that it heard (`Ledger`), so the order of the
observations drops out.  A choice is of a moment the server has seen (`Sane`)
and the status stands by it (`Stands`).

*KoboSync.*  What was read for a request is of the book's past and a stamp
tells one edition from another (`Read`), so a recorded row is never newer than
what was sent, nor than what is being read (`RowsRead`); a book that never
moved between shelves is on a device that has our token, no older than its row
says, unless it is about to be sent again, whatever failed or was wiped
(`UnmarkedIsHeld`); and without a fault that `mistaken` names the snapshot says
what the device holds once it has read the body on its way (`SnapshotIsTrue`).

*Outbox.*  The passes form a chain ordered by their ceilings, of which only the
lowest works (`Chain`, `Waiting`); what a sweep has still to send comes after
all the server has taken of its kind, and nothing older of that kind waits
elsewhere (`Ordered`, `Promise`).

*Merge.*  The first invariant relates tables and log: no annotation was moved
by two open merges (`Events`), an opinion settled by one merge is on the target
or was found there by the next (`Settled`), what a reader said and did not
replace is in a review or in a copy that an undo puts back (`Noted`), the
ground a merge folded is on its target (`Covered`).  The round trip needs a
second one, `Undoable`: what the books were before the first open merge can be
read off the log and the tables (`Open`).  A book that stands has its own
files, annotations, opinions, position and ground with those of the books
merged into it, and the row of each merge says which are whose (`FilesSince`,
`EventsSince`, `GroundSince`); the merges that replaced a position or an
opinion form a chain, each having found what the one before left, so that
undoing them in any order that is not refused ends at the first (`Chain`,
`ProgressSince`, `OpinionSince`); dropping what the open merges added leaves
the authors there were (`AuthorsSince`); the first open merge into a book knows
its sort key, which is why an undo hands the key on (`SortSince`).  `RowIds`
keeps apart the row ids that the undo compares.

*Library.*  `TypeCorrectness` is about every state, the others about those
before the first of the `Troubles`: `troubled` only grows (`MoreTroubles`), so
a step that leaves none comes from a state with none and is none of them
(`SyncTroubles`, `MergeIs`).  A sync is a
chain of folds over the plan (removed, attached, moved, changed, new), so its
lemmas say what one removal, one move, one file does, and `LibraryProofs`
carries them through each fold by the least path at which they would fail.

* One book per file is `Agreed`.  The tables are `Placed`: a row is at its
  book's key or has a ledger row there, no path keys a book and is in the
  ledger too, or is there twice, no handle is the uuid of a book that stands,
  and a book has one file of a format.  And what a scan holds is still true
  enough of them when it is written (`ReadWell`, `PlanWell`): a book read in
  the walk is where it was, or goes by its uuid in the ledger; what the plan
  moves or removes is not at a path where a file was seen, and a file moves to
  a path of its format that the plan gives to nothing else.
* Agreement with the disk is `Whole`, in two steps as the code needs two scans.
  An undisturbed scan leaves `Half`: every row names a file with its stat, and
  a book whose path has a file has it.  The next then finds nothing but files
  without a row, whose slots are free, and leaves `Full`.  `HalfIsQuiet` shows
  that nothing else is in its plan.
* A file's book is `Traced`: the file is at the path of its book, or has a row
  of the book, or is `Away`: not at the path of that row, but the only file and
  the row the only row of its stat, at a path the index does not know, which
  is when the next scan pairs the two.  And nothing at the path of its book
  takes the slot of the file (`SlotFree`).  The long case is `SyncTraced`: the
  plan has the move (`AwayDeparts`), no other move takes its place, and the
  row lands (`MovesTrace`); the later folds give the book to no other file
  (`ScanKeeps`).

The proofs rest on the named assumptions of the modules, which TLC evaluates in
every run: bounds are natural numbers, capacities, page sizes and read limits
at least one (`Worker::new` clamps the first, the others are literals), the
sets of books and guids finite, a link table has a book's authors once
(`CataloguesAssumption`: the key of `books_authors_link`), an `Err` or a detail
is no `None`, and `None` is distinct from the values it stands beside.  Sums
over sets (`total`) and `without` are recursive functions; that they are what
they say (`SumIsThere`, `TotalChange`, `Without`, `WithoutStep`) is proved in
`MergeProofs` by taking the least number at which they would not be.

Only model-checked is liveness, under fairness: `EveryCallReturns`,
`RemovalsEnd`, `FinishedIsImported`, `DeviceConverges`, `QueueEmpties`, and the
fairness of `KeyedExecutor`.  All need `ENABLED`, which the prover does not
support.

## Not modelled

The inventory names sessions, limiters and the suggestions cache; they have a
protocol and are in the plan.  Most of the program has none: parsers of ebook
and audio formats, position translation, cross-format alignment, converters,
covers, browse and search queries, statistics, chart and user-interface code,
wire formats of OPDS and MCP, and single-row edits in one transaction (shelves,
ratings, reviews, journals, settings).  They are data, I/O or read-only, and a
small model would restate them.  What each module leaves out of its own
component is said in its section above.

## Plan

1. `Library`: audiobook groups and their parts, whose rows share a path, and a
   second scan root; `Placed` is stated per path and would become per root.
2. Modules for the limiters (`StartLog`, cooldowns), sessions with
   impersonation, the suggestions marker over `KeyedExecutor`, the replica of
   the iOS app, and the undo of a cleanup of names, which has the shape of
   `Merge`.
