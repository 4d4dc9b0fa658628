------------------------------- MODULE Worker -------------------------------
(***************************************************************************)
(* The background-task worker (db/src/worker).  `post` spawns one future   *)
(* per task.  The future writes a durable history row, clones the mutex of *)
(* its resource key out of `resource_locks`, waits for that mutex, waits   *)
(* for a concurrency permit, runs its handler, records the terminal state, *)
(* unlocks, reclaims the map entry and publishes its outcome; a handler    *)
(* that panics leaves by the unwinding path instead, on which only the     *)
(* RAII guards run.  Futures run on a multi-threaded runtime: every step   *)
(* that takes a lock, awaits, or is visible to another future is an action *)
(* of its own, named after the function or statement it stands for.        *)
(*                                                                         *)
(* A mutex is identified by the id of the task that created it.  Its queue *)
(* holds the tasks that called `lock_owned`, in tokio's FIFO order; the    *)
(* head is the holder.  The clone of the Arc a task holds is arc[i], so    *)
(* the strong count of a mutex is 1 + Cardinality({i : arc[i] = m}) while  *)
(* the map has it.                                                         *)
(***************************************************************************)
EXTENDS Naturals, Sequences, FiniteSets

CONSTANTS
    MaxTasks,                \* bound: how many tasks are ever posted
    Roots,                   \* the tasks posted from outside the worker
    Variants,                \* the Task variants this instance follows
    Args,                    \* library paths, book ids, author ids ...
    Capacity,                \* permits of each semaphore
    RECENT_COMPLETIONS_CAP,  \* window of completion_timings per kind
    MaxReports,              \* bound: progress reports per task
    HandlerOutcomes,         \* bound: the handler outcomes explored
    WriteResults,            \* whether history writes succeed, fail, or both
    Callers,                 \* concurrent callers of await_completion
    Pollers,                 \* clients polling the worker's status
    Users,                   \* users that may own a task
    None                     \* the absent value

Semaphores == {"scan", "hls", "convert"}

(* The tasks the worker accepts: a variant and its argument. *)
Task == [variant : Variants, arg : Args]

TaskId == 1 .. MaxTasks

(* Worker::new clamps every concurrency to at least one. *)
ASSUME CapacityAssumption == Capacity \in [Semaphores -> Nat \ {0}]

ASSUME BoundsAssumption ==
    /\ MaxTasks \in Nat
    /\ MaxReports \in Nat
    /\ RECENT_COMPLETIONS_CAP \in Nat \ {0}

ASSUME TaskAssumption == Roots \subseteq Task

ASSUME ResultsAssumption == WriteResults \subseteq BOOLEAN

ASSUME NoneAssumption == None \notin TaskId \cup Users \cup Task \cup Semaphores

LibraryKeyed ==
    {"Scan", "BackfillWordCounts", "BackfillPageCounts", "BackfillPartialMd5",
     "BackfillEpubStructure", "BackfillCovers", "BackfillThumbs",
     "BackfillContentFts"}

(* Every production variant has a key; equal keys serialise. *)
resource_key(t) ==
    CASE t.variant \in LibraryKeyed -> <<"library", t.arg>>
      [] t.variant \in {"ScanAudiobooks", "BackfillChapters"}
             -> <<"audiobooks", t.arg>>
      [] t.variant \in {"RefetchAuthorPhotos", "RebuildFtsIndex",
                        "SendToKindle", "RewriteAllEpubs", "DetectCleanup"}
             -> <<t.variant, "all">>
      [] OTHER -> <<t.variant, t.arg>>

(* The semaphore a task waits for after its resource lock, if any. *)
semaphore_of(t) ==
    CASE t.variant \in {"Scan", "ScanAudiobooks"} -> "scan"
      [] t.variant = "HlsTranscode" -> "hls"
      [] t.variant = "ConvertFormat" -> "convert"
      [] OTHER -> None

(* The wire-facing kind: most variants reuse "Scan". *)
kind(t) ==
    CASE t.variant \in {"ResolveAuthorPhoto", "RefetchAuthorPhotos",
                        "BackfillChapters", "ResolveSuggestions"} -> t.variant
      [] t.variant \in {"GenerateThumbs", "BackfillThumbs"} -> "GenerateThumbs"
      [] OTHER -> "Scan"

Kinds == {"Scan", "GenerateThumbs", "ResolveAuthorPhoto",
          "RefetchAuthorPhotos", "BackfillChapters", "ResolveSuggestions"}

(* What a successful scan posts before it returns, in posting order. *)
follow_ups(t) ==
    CASE t.variant = "Scan" ->
           <<"BackfillWordCounts", "BackfillPageCounts", "BackfillPartialMd5",
             "BackfillEpubStructure", "BackfillCovers", "BackfillThumbs",
             "BackfillContentFts", "DetectCleanup">>
      [] t.variant = "ScanAudiobooks" -> <<"BackfillChapters">>
      [] OTHER -> << >>

-----------------------------------------------------------------------------
(* TaskOutcome: Ok with an optional detail, or Err with a message.         *)

Ok(detail)   == [ok |-> TRUE,  text |-> detail]
Err(message) == [ok |-> FALSE, text |-> message]

Messages == {"", "failed", "task panicked", "dropped", "unknown task id"}

TaskOutcome ==
    [ok : {TRUE}, text : {"plain", "GhostFiles", "BakeErrors"}] \cup
    [ok : {FALSE}, text : Messages]

(* No outcome is not an outcome. *)
ASSUME OutcomeAssumption == None \notin TaskOutcome

(* What the handler of a task may return. *)
handler_outcomes(t) ==
    {o \in HandlerOutcomes :
        \/ o \in {Ok("plain"), Err("failed")}
        \/ o = Ok("GhostFiles") /\ t.variant \in {"Scan", "ScanAudiobooks"}
        \/ o = Ok("BakeErrors") /\ t.variant = "RewriteAllEpubs"}

(* An entry of the progress map; terminal_at is Some exactly for the two   *)
(* terminal states, so the state stands for it.  "Absent": not in the map. *)
ProgressEntry ==
    [state : {"Absent", "Running", "Done", "Failed"},
     processed : 0 .. MaxReports,
     ghost_warning : BOOLEAN,
     bake_errors : BOOLEAN,
     message : Messages,
     owner : Users \cup {None}]

Absent == [state |-> "Absent", processed |-> 0, ghost_warning |-> FALSE,
           bake_errors |-> FALSE, message |-> "", owner |-> None]

seed_progress_entry ==
    [state |-> "Running", processed |-> 0, ghost_warning |-> FALSE,
     bake_errors |-> FALSE, message |-> "", owner |-> None]

terminal(entry) == entry.state \in {"Done", "Failed"}

(* Mutant: a success carries its detail where the failure message goes. *)
project_terminal_keeps_text(entry, o) ==
    [entry EXCEPT !.state = IF o.ok THEN "Done" ELSE "Failed",
                  !.message = o.text]

(* A handler's outcome as the terminal state of its progress entry. *)
project_terminal(entry, o) ==
    [entry EXCEPT !.state = IF o.ok THEN "Done" ELSE "Failed",
                  !.ghost_warning = o = Ok("GhostFiles"),
                  !.bake_errors = o = Ok("BakeErrors"),
                  !.message = IF o.ok THEN "" ELSE o.text]

(* Mutant: forgets that a bake's errors ride on a Done entry. *)
retained_outcome_no_bake(entry) ==
    CASE entry.state = "Done" -> Ok(IF entry.ghost_warning THEN "GhostFiles"
                                                           ELSE "plain")
      [] entry.state = "Failed" -> Err(entry.message)
      [] OTHER -> Err("unknown task id")

(* Its inverse, for a caller that finds the completion slot gone. *)
retained_outcome(entry) ==
    CASE entry.state = "Done" -> Ok(IF entry.ghost_warning THEN "GhostFiles"
                                    ELSE IF entry.bake_errors THEN "BakeErrors"
                                    ELSE "plain")
      [] entry.state = "Failed" -> Err(entry.message)
      [] OTHER -> Err("unknown task id")

-----------------------------------------------------------------------------
VARIABLES
    next_id,             \* the next id `post` hands out
    tasks,               \* tasks[i]: the task posted under id i
    pc,                  \* pc[i]: where the future of task i is
    posts,               \* posts[i]: follow-ups its handler has posted
    outcome,             \* outcome[i]: what its handler returned, None before
    arc,                 \* arc[i]: the mutex task i holds a clone of
    resource_locks,      \* resource_locks[k]: the mutex the map has for k
    queue,               \* queue[m]: holder and waiters of mutex m
    permits,             \* permits[s]: tasks holding a permit of s
    waiting,             \* waiting[s]: tasks queued for a permit of s
    completions,         \* ids whose receiver is in the completions map
    tx,                  \* tx[i]: the sender: open, sent, closed unsent
    progress,            \* the progress map
    completion_timings,  \* per kind, the tasks whose duration is recorded
    rows,                \* rows[i]: the background_tasks row of task i
    caller,              \* caller[c]: a call of await_completion
    taken                \* history: ids whose receiver a caller took

future == <<next_id, tasks, pc, posts, outcome>>
locks  == <<arc, resource_locks, queue, permits, waiting>>
ledger == <<progress, completion_timings, rows>>
slots  == <<completions, tx, caller, taken>>
vars   == <<future, locks, ledger, slots>>

Keys == {resource_key(t) : t \in Task}

key(i) == resource_key(tasks[i])

Locations ==
    {"unposted", "start", "entry", "lock", "queued", "permit", "running",
     "posting", "record", "unlock", "drop_arc", "prune", "release", "finish",
     "send", "guard", "slot", "close", "done"}

(* The handler of task i panicked: it will never have an outcome. *)
panicked(i) == outcome[i] = Err("task panicked")

(* Task i is at the head of the queue of the mutex it has a clone of. *)
holder(i) == queue[arc[i]] # << >> /\ Head(queue[arc[i]]) = i

TypeOK ==
    /\ next_id \in 1 .. MaxTasks + 1
    /\ tasks \in [TaskId -> Task \cup {None}]
    /\ pc \in [TaskId -> Locations]
    /\ posts \in [TaskId -> Nat]
    /\ outcome \in [TaskId -> TaskOutcome \cup {None}]
    /\ arc \in [TaskId -> TaskId \cup {None}]
    /\ resource_locks \in [Keys -> TaskId \cup {None}]
    /\ queue \in [TaskId -> Seq(TaskId)]
    /\ permits \in [Semaphores -> SUBSET TaskId]
    /\ waiting \in [Semaphores -> Seq(TaskId)]
    /\ completions \subseteq TaskId
    /\ tx \in [TaskId -> {"open", "sent", "closed"}]
    /\ progress \in [TaskId -> ProgressEntry]
    /\ completion_timings \in [Kinds -> Seq(TaskId)]
    /\ rows \in [TaskId -> {"none", "running", "success", "failed"}]
    /\ caller \in [Callers -> [at : {"idle", "waiting", "answered", "timed out"},
                               id : TaskId \cup {None},
                               result : TaskOutcome \cup {None}]]
    /\ taken \subseteq TaskId

Init ==
    /\ next_id = 1
    /\ tasks = [i \in TaskId |-> None]
    /\ pc = [i \in TaskId |-> "unposted"]
    /\ posts = [i \in TaskId |-> 0]
    /\ outcome = [i \in TaskId |-> None]
    /\ arc = [i \in TaskId |-> None]
    /\ resource_locks = [k \in Keys |-> None]
    /\ queue = [m \in TaskId |-> << >>]
    /\ permits = [s \in Semaphores |-> {}]
    /\ waiting = [s \in Semaphores |-> << >>]
    /\ completions = {}
    /\ tx = [i \in TaskId |-> "open"]
    /\ progress = [i \in TaskId |-> Absent]
    /\ completion_timings = [k \in Kinds |-> << >>]
    /\ rows = [i \in TaskId |-> "none"]
    /\ caller = [c \in Callers |-> [at |-> "idle", id |-> None, result |-> None]]
    /\ taken = {}

goto(i, l) == pc' = [pc EXCEPT ![i] = l]

-----------------------------------------------------------------------------
(* post: hand out an id, store the receiver, seed the progress entry and   *)
(* spawn the future.                                                       *)
post(t) ==
    /\ next_id \in TaskId
    /\ next_id' = next_id + 1
    /\ tasks' = [tasks EXCEPT ![next_id] = t]
    /\ goto(next_id, "start")
    /\ completions' = completions \cup {next_id}
    /\ progress' = [progress EXCEPT ![next_id] = seed_progress_entry]

(* A caller outside the worker posts: boot, the periodic scan tick, the    *)
(* settings, upload, reader and import handlers.                           *)
PostRoot ==
    /\ \E t \in Roots : post(t)
    /\ UNCHANGED <<posts, outcome, locks, completion_timings, rows,
                   tx, caller, taken>>

(* set_task_owner: the Send-to-Kindle handler's call right after `post`.   *)
set_task_owner(i, u) ==
    /\ progress[i].state # "Absent"
    /\ progress[i].owner = None
    /\ tasks[i].variant = "SendToKindle"
    /\ progress' = [progress EXCEPT ![i].owner = u]
    /\ UNCHANGED <<future, locks, completion_timings, rows, slots>>

(* persist_task_start: best effort, the row may fail to be written. *)
persist_task_start(i) ==
    /\ pc[i] = "start"
    /\ \E written \in WriteResults :
          rows' = IF written THEN [rows EXCEPT ![i] = "running"] ELSE rows
    /\ goto(i, "entry")
    /\ UNCHANGED <<next_id, tasks, posts, outcome, locks, progress,
                   completion_timings, slots>>

(* Under the map lock: clone the key's mutex, creating it if absent. *)
clone_resource_lock(i) ==
    /\ pc[i] = "entry"
    /\ LET m == IF resource_locks[key(i)] = None THEN i
                ELSE resource_locks[key(i)]
       IN  /\ resource_locks' = [resource_locks EXCEPT ![key(i)] = m]
           /\ arc' = [arc EXCEPT ![i] = m]
    /\ goto(i, "lock")
    /\ UNCHANGED <<next_id, tasks, posts, outcome, queue, permits, waiting,
                   ledger, slots>>

(* lock_owned: join the mutex's queue. *)
lock_owned(i) ==
    /\ pc[i] = "lock"
    /\ queue' = [queue EXCEPT ![arc[i]] = Append(@, i)]
    /\ goto(i, "queued")
    /\ UNCHANGED <<next_id, tasks, posts, outcome, arc, resource_locks,
                   permits, waiting, ledger, slots>>

(* Mutant: the permit is taken without a look at the ones handed out. *)
acquire_permit_uncounted(i) ==
    /\ pc[i] = "queued"
    /\ holder(i)
    /\ permits' = [s \in Semaphores |->
                     IF s = semaphore_of(tasks[i]) THEN permits[s] \cup {i}
                     ELSE permits[s]]
    /\ goto(i, "running")
    /\ UNCHANGED <<next_id, tasks, posts, outcome, arc, resource_locks, queue,
                   waiting, ledger, slots>>

(* Holding the mutex, ask for the task's permit: taken if one is free,     *)
(* queued for otherwise.                                                   *)
acquire_permit(i) ==
    /\ pc[i] = "queued"
    /\ holder(i)
    /\ LET s == semaphore_of(tasks[i])
       IN  \/ /\ s = None
              /\ goto(i, "running")
              /\ UNCHANGED <<permits, waiting>>
           \/ /\ s # None
              /\ Cardinality(permits[s]) < Capacity[s]
              /\ permits' = [permits EXCEPT ![s] = @ \cup {i}]
              /\ goto(i, "running")
              /\ UNCHANGED waiting
           \/ /\ s # None
              /\ Cardinality(permits[s]) >= Capacity[s]
              /\ waiting' = [waiting EXCEPT ![s] = Append(@, i)]
              /\ goto(i, "permit")
              /\ UNCHANGED permits
    /\ UNCHANGED <<next_id, tasks, posts, outcome, arc, resource_locks, queue,
                   ledger, slots>>

(* The permit a releasing task handed over. *)
permit_granted(i) ==
    /\ pc[i] = "permit"
    /\ i \in permits[semaphore_of(tasks[i])]
    /\ goto(i, "running")
    /\ UNCHANGED <<next_id, tasks, posts, outcome, locks, ledger, slots>>

(* A handler's progress report; ignored once the entry is terminal. *)
report_progress_update(i) ==
    /\ pc[i] = "running"
    /\ progress[i].state = "Running"
    /\ progress[i].processed < MaxReports
    /\ progress' = [progress EXCEPT ![i].processed = @ + 1]
    /\ UNCHANGED <<future, locks, completion_timings, rows, slots>>

(* The handler decides its outcome; a scan that succeeded has follow-ups   *)
(* to post before it returns.                                              *)
execute(i) ==
    /\ pc[i] = "running"
    /\ \E o \in handler_outcomes(tasks[i]) :
          outcome' = [outcome EXCEPT ![i] = o]
    /\ goto(i, "posting")
    /\ UNCHANGED <<next_id, tasks, posts, locks, ledger, slots>>

(* What the handler of task i posts before it returns its outcome. *)
pending_follow_ups(i) == IF outcome[i].ok THEN follow_ups(tasks[i]) ELSE << >>

(* One `self.post` of a scan handler.  A variant this instance does not    *)
(* follow, or a post past MaxTasks, is dropped.                            *)
post_follow_up(i) ==
    /\ pc[i] = "posting"
    /\ posts[i] < Len(pending_follow_ups(i))
    /\ posts' = [posts EXCEPT ![i] = @ + 1]
    /\ LET variant == pending_follow_ups(i)[posts[i] + 1]
       IN  IF variant \in Variants /\ next_id \in TaskId
           THEN post([variant |-> variant, arg |-> tasks[i].arg])
           ELSE UNCHANGED <<next_id, tasks, pc, completions, progress>>
    /\ UNCHANGED <<outcome, locks, completion_timings, rows, tx, caller, taken>>

(* The handler panics: unwinding drops the permit and the mutex guard. *)
panic(i) ==
    /\ pc[i] = "running"
    /\ outcome' = [outcome EXCEPT ![i] = Err("task panicked")]
    /\ goto(i, "release")
    /\ UNCHANGED <<next_id, tasks, posts, locks, ledger, slots>>

(* write_terminal_progress, under the progress lock. *)
write_terminal_progress(i) ==
    /\ pc[i] = "posting"
    /\ posts[i] >= Len(pending_follow_ups(i))
    /\ progress' = [progress EXCEPT ![i] = project_terminal(@, outcome[i])]
    /\ goto(i, "record")
    /\ UNCHANGED <<next_id, tasks, posts, outcome, locks, completion_timings,
                   rows, slots>>

(* push_back, then pop_front past the cap. *)
push_completion(window, i) ==
    IF Len(window) >= RECENT_COMPLETIONS_CAP
    THEN Append(Tail(window), i) ELSE Append(window, i)

(* record_completion, after the progress lock is released. *)
record_completion(i) ==
    /\ pc[i] = "record"
    /\ completion_timings' =
          [completion_timings EXCEPT ![kind(tasks[i])] = push_completion(@, i)]
    /\ goto(i, "unlock")
    /\ UNCHANGED <<next_id, tasks, posts, outcome, locks, progress, rows, slots>>

(* drop(_resource_guard): unlock, which hands the mutex to the next waiter. *)
unlock(i) ==
    /\ pc[i] = "unlock"
    /\ queue' = [queue EXCEPT ![arc[i]] = Tail(@)]
    /\ goto(i, "drop_arc")
    /\ UNCHANGED <<next_id, tasks, posts, outcome, arc, resource_locks,
                   permits, waiting, ledger, slots>>

(* ... and drop the guard's clone.  Unwinding skips everything up to the   *)
(* guards of the spawned future.                                           *)
drop_arc(i) ==
    /\ pc[i] = "drop_arc"
    /\ arc' = [arc EXCEPT ![i] = None]
    /\ goto(i, IF panicked(i) THEN "guard" ELSE "prune")
    /\ UNCHANGED <<next_id, tasks, posts, outcome, resource_locks, queue,
                   permits, waiting, ledger, slots>>

(* Mutant: the strong count is not checked. *)
prune_resource_lock_always(i) ==
    /\ pc[i] = "prune"
    /\ resource_locks' = [resource_locks EXCEPT ![key(i)] = None]
    /\ goto(i, "release")
    /\ UNCHANGED <<next_id, tasks, posts, outcome, arc, queue, permits,
                   waiting, ledger, slots>>

(* Under the map lock: remove the key's mutex if only the map refers to it. *)
prune_resource_lock(i) ==
    /\ pc[i] = "prune"
    /\ resource_locks' =
          IF \A j \in TaskId : arc[j] = None \/ arc[j] # resource_locks[key(i)]
          THEN [resource_locks EXCEPT ![key(i)] = None] ELSE resource_locks
    /\ goto(i, "release")
    /\ UNCHANGED <<next_id, tasks, posts, outcome, arc, queue, permits,
                   waiting, ledger, slots>>

(* A released permit goes to the longest waiter, if there is one. *)
give_back(s, i) ==
    IF waiting[s] = << >>
    THEN /\ permits' = [permits EXCEPT ![s] = @ \ {i}]
         /\ UNCHANGED waiting
    ELSE /\ permits' = [permits EXCEPT ![s] = (@ \ {i}) \cup {Head(waiting[s])}]
         /\ waiting' = [waiting EXCEPT ![s] = Tail(@)]

(* The permits drop when `run` returns, or first of all when it unwinds. *)
release_permit(i) ==
    /\ pc[i] = "release"
    /\ IF semaphore_of(tasks[i]) = None THEN UNCHANGED <<permits, waiting>>
       ELSE give_back(semaphore_of(tasks[i]), i)
    /\ goto(i, IF panicked(i) THEN "unlock" ELSE "finish")
    /\ UNCHANGED <<next_id, tasks, posts, outcome, arc, resource_locks, queue,
                   ledger, slots>>

(* persist_task_finish, if there is a row; best effort too. *)
persist_task_finish(i) ==
    /\ pc[i] = "finish"
    /\ \E written \in WriteResults :
          rows' = IF written /\ rows[i] # "none"
                  THEN [rows EXCEPT ![i] = IF outcome[i].ok THEN "success"
                                                            ELSE "failed"]
                  ELSE rows
    /\ goto(i, "send")
    /\ UNCHANGED <<next_id, tasks, posts, outcome, locks, progress,
                   completion_timings, slots>>

(* tx.send(Some(outcome)). *)
send_outcome(i) ==
    /\ pc[i] = "send"
    /\ tx' = [tx EXCEPT ![i] = "sent"]
    /\ goto(i, "guard")
    /\ UNCHANGED <<next_id, tasks, posts, outcome, locks, ledger, completions,
                   caller, taken>>

(* What ProgressTerminalGuard leaves of an entry: a synthetic failure      *)
(* unless the task recorded a terminal state itself.                       *)
panic_terminal(entry) ==
    IF entry.state = "Running"
    THEN [entry EXCEPT !.state = "Failed", !.message = "task panicked"]
    ELSE entry

(* ProgressTerminalGuard drops, ... *)
drop_progress_guard(i) ==
    /\ pc[i] = "guard"
    /\ progress' = [progress EXCEPT ![i] = panic_terminal(@)]
    /\ goto(i, "slot")
    /\ UNCHANGED <<next_id, tasks, posts, outcome, locks, completion_timings,
                   rows, slots>>

(* Mutant: the slot is reclaimed on the happy path only. *)
drop_prune_guard_happy_only(i) ==
    /\ pc[i] = "slot"
    /\ completions' = IF panicked(i) THEN completions ELSE completions \ {i}
    /\ goto(i, "close")
    /\ UNCHANGED <<next_id, tasks, posts, outcome, locks, ledger, tx, caller,
                   taken>>

(* ... then CompletionsPruneGuard, ... *)
drop_prune_guard(i) ==
    /\ pc[i] = "slot"
    /\ completions' = completions \ {i}
    /\ goto(i, "close")
    /\ UNCHANGED <<next_id, tasks, posts, outcome, locks, ledger, tx, caller,
                   taken>>

(* Mutant: the sender outlives the future, as if the map had stored it. *)
drop_sender_never(i) ==
    /\ pc[i] = "close"
    /\ goto(i, "done")
    /\ UNCHANGED <<next_id, tasks, posts, outcome, locks, ledger, slots>>

(* ... and last the sender, which closes a channel nothing was sent on. *)
drop_sender(i) ==
    /\ pc[i] = "close"
    /\ tx' = [tx EXCEPT ![i] = IF @ = "open" THEN "closed" ELSE @]
    /\ goto(i, "done")
    /\ UNCHANGED <<next_id, tasks, posts, outcome, locks, ledger, completions,
                   caller, taken>>

-----------------------------------------------------------------------------
answer(c, i, o) ==
    caller' = [caller EXCEPT ![c] = [at |-> "answered", id |-> i, result |-> o]]

(* await_completion: take the receiver out of the map; without one, answer *)
(* from the retained progress entry.                                       *)
await_completion(c, i) ==
    /\ caller[c].at = "idle"
    /\ pc[i] # "unposted"
    /\ \/ /\ i \in completions
          /\ completions' = completions \ {i}
          /\ taken' = taken \cup {i}
          /\ caller' = [caller EXCEPT ![c].at = "waiting", ![c].id = i]
       \/ /\ i \notin completions
          /\ answer(c, i, retained_outcome(progress[i]))
          /\ UNCHANGED <<completions, taken>>
    /\ UNCHANGED <<future, locks, ledger, tx>>

(* Its receive loop: the value sent, or the closed channel. *)
observe(c) ==
    /\ caller[c].at = "waiting"
    /\ LET i == caller[c].id
       IN  \/ tx[i] = "sent" /\ answer(c, i, outcome[i])
           \/ tx[i] = "closed" /\ answer(c, i, Err("dropped"))
    /\ UNCHANGED <<future, locks, ledger, completions, tx, taken>>

(* A caller that wrapped the call in a timeout gives up: the receiver goes *)
(* with it.                                                                *)
time_out(c) ==
    /\ caller[c].at = "waiting"
    /\ caller' = [caller EXCEPT ![c].at = "timed out"]
    /\ UNCHANGED <<future, locks, ledger, completions, tx, taken>>

(* progress_snapshot: evicts the terminal entries older than the retention *)
(* window (which ones is left open: no clock is modelled).                 *)
snapshot(p) ==
    /\ \E expired \in SUBSET {i \in TaskId : terminal(progress[i])} \ {{}} :
          progress' = [i \in TaskId |->
                          IF i \in expired THEN Absent ELSE progress[i]]
    /\ UNCHANGED <<future, locks, completion_timings, rows, slots>>

(* Every posted task ended and the bound on posts is reached. *)
Quiescent ==
    /\ next_id > MaxTasks
    /\ \A i \in TaskId : pc[i] = "done"
    /\ \A c \in Callers : caller[c].at # "waiting"
    /\ UNCHANGED vars

-----------------------------------------------------------------------------
(* What the runtime does for a posted task, in the order of the code. *)
FutureStep(i) ==
    \/ persist_task_start(i)
    \/ clone_resource_lock(i)
    \/ lock_owned(i)
    \/ acquire_permit(i)
    \/ permit_granted(i)
    \/ execute(i)
    \/ panic(i)
    \/ post_follow_up(i)
    \/ write_terminal_progress(i)
    \/ record_completion(i)
    \/ unlock(i)
    \/ drop_arc(i)
    \/ prune_resource_lock(i)
    \/ release_permit(i)
    \/ persist_task_finish(i)
    \/ send_outcome(i)
    \/ drop_progress_guard(i)
    \/ drop_prune_guard(i)
    \/ drop_sender(i)

Next ==
    \/ PostRoot
    \/ \E i \in TaskId :
          \/ FutureStep(i)
          \/ report_progress_update(i)
          \/ \E u \in Users : set_task_owner(i, u)
          \/ \E c \in Callers : await_completion(c, i)
    \/ \E c \in Callers : observe(c) \/ time_out(c)
    \/ \E p \in Pollers : snapshot(p)
    \/ Quiescent

(* The runtime polls every future that can make progress, and a handler    *)
(* ends: every one is bounded work or a call with a timeout of its own.    *)
Fairness ==
    /\ \A i \in TaskId : WF_vars(FutureStep(i))
    /\ \A c \in Callers : WF_vars(observe(c))

Spec == Init /\ [][Next]_vars

FairSpec == Spec /\ Fairness

-----------------------------------------------------------------------------
(* Safety.                                                                 *)

(* The handlers of two tasks with the same resource key never run at the   *)
(* same time: "Tasks sharing a resource key serialize behind one another"  *)
(* (types.rs), although the map entry of the key comes and goes.           *)
MutualExclusion ==
    \A i, j \in TaskId :
        /\ pc[i] \in {"running", "posting"}
        /\ pc[j] \in {"running", "posting"}
        /\ key(i) = key(j)
        => i = j

(* Whatever await_completion answers is true: an answer read from the      *)
(* channel or from the retained entry is the outcome of the task, details  *)
(* included, and "unknown task id" is given for a posted task only when    *)
(* its entry was evicted or another caller had taken the receiver.         *)
AnswersTruthful ==
    \A c \in Callers : caller[c].at = "answered" =>
        LET i == caller[c].id
        IN  \/ caller[c].result = outcome[i]
            \/ caller[c].result = Err("dropped") /\ panicked(i)
            \/ /\ caller[c].result = Err("unknown task id")
               /\ progress[i].state = "Absent" \/ i \in taken

(* When the future of a task is gone, nothing of it is left behind in the  *)
(* worker but a terminal progress entry awaiting eviction: no completion   *)
(* slot, no permit, no place in a queue, no clone of a mutex, no entry     *)
(* that the UI would show as running for ever. Nor does the lock map grow: *)
(* an entry no task refers to is one some task is about to prune, or one a *)
(* panicking task left (exec.rs, "Without this the map would grow by one   *)
(* Arc per distinct resource key").                                        *)
NothingLeftBehind ==
    /\ \A i \in TaskId : pc[i] = "done" =>
        /\ i \notin completions
        /\ progress[i].state # "Running"
        /\ arc[i] = None
        /\ \A s \in Semaphores : i \notin permits[s]
        /\ \A m \in TaskId : \A n \in 1 .. Len(queue[m]) : queue[m][n] # i
    /\ \A k \in Keys : resource_locks[k] # None =>
          \/ \E i \in TaskId : arc[i] = resource_locks[k]
          \/ \E i \in TaskId : /\ tasks[i] # None /\ key(i) = k
                               /\ pc[i] = "prune" \/ panicked(i)

-----------------------------------------------------------------------------
(* Liveness, under FairSpec.                                               *)

(* Every call of await_completion returns, if only with "dropped". *)
EveryCallReturns ==
    \A c \in Callers : caller[c].at = "waiting" ~> caller[c].at # "waiting"
=============================================================================
