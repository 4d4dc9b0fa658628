------------------------------- MODULE Outbox -------------------------------
(***************************************************************************)
(* The mutation outbox of the iOS app: the ops table of OfflineStore.swift *)
(* and its replay by SyncEngine.swift. A write is queued, then a drain     *)
(* pushes everything queued so far; any number of screens, timers and life *)
(* cycle events ask for drains, which join a pass under way or chain one   *)
(* behind it.                                                              *)
(*                                                                         *)
(* Both Swift actors give up their turn at every await, so a step here is  *)
(* what runs between two awaits: one call of the store, or one reply of    *)
(* the server. The app may be killed at any step; the table survives.      *)
(***************************************************************************)
EXTENDS Integers, FiniteSets, FiniteSetsExt

CONSTANTS
    Positions,           \* kinds of one coalesced value: positions, rates
    Gestures,            \* kinds of discrete events: highlights, bookmarks
    Reviews,             \* kinds of field patches and deletes
    Callers,             \* tasks that write or drain
    Timer,               \* the caller of Connectivity's retry loop
    LIMIT,               \* ops a sweep reads
    maxReplayAttempts,   \* failures after which an op is held aside
    MaxOps,              \* bound: writes queued
    MaxFaults,           \* bound: requests that do not succeed, and kills
    None

ASSUME OutboxConstants ==
    /\ Timer \in Callers
    /\ {LIMIT, maxReplayAttempts} \subseteq Nat \ {0}
    /\ {MaxOps, MaxFaults} \subseteq Nat
    /\ None \notin Callers \cup Nat

Kinds == Positions \cup Gestures \cup Reviews
OpId == 1 .. MaxOps

VARIABLES
    ops,       \* the ops table
    next_id,   \* its AUTOINCREMENT
    current,   \* the last pass installed and not released, or None
    pass,      \* the pass each caller has started, or None
    call,      \* what each caller is waiting for
    landed,    \* history: the writes the server has taken
    last,      \* history: the op of each kind the server took last
    dropped,   \* history: writes replaced by a later one, or discarded
    faults     \* requests failed and kills so far

history == <<landed, last, dropped>>
vars == <<ops, next_id, current, pass, call, history, faults>>

(* carries: the writes whose fields the body holds; names: the create whose *)
(* client id is spelled in the path.                                        *)
Op ==
    [id : OpId, kind : Kinds,
     form : {"value", "create", "edit", "patch", "delete"},
     names : OpId \cup {None}, carries : SUBSET OpId,
     attempts : 0 .. maxReplayAttempts + 1, refused : BOOLEAN]

Pass ==
    [at : {"listing", "sweeping", "sent", "references", "spent", "ending"},
     after : Callers \cup {None}, bound : 0 .. MaxOps, todo : SUBSET Op,
     read : 0 .. LIMIT, op : Op \cup {None}, stalled : SUBSET Kinds,
     retired : 0 .. LIMIT, stopped : BOOLEAN]

Current == [bound : 0 .. MaxOps, pass : Callers]

(* None is the nil of Swift: no op, no pass. *)
ASSUME NoneAssumption == None \notin Op \cup Pass \cup Current

Idle == [at |-> "idle", bound |-> 0, pass |-> None]

TypeOK ==
    /\ ops \subseteq Op
    /\ \A o, p \in ops : o.id = p.id => o = p
    /\ next_id \in 1 .. MaxOps + 1
    /\ current \in Current \cup {None}
    /\ pass \in [Callers -> Pass \cup {None}]
    /\ call \in [Callers -> [at : {"idle", "bounded", "waiting"},
                             bound : 0 .. MaxOps, pass : Callers \cup {None}]]
    /\ landed \subseteq OpId /\ dropped \subseteq OpId
    /\ last \in [Kinds -> 0 .. MaxOps]
    /\ faults \in 0 .. MaxFaults

Init ==
    /\ ops = {} /\ next_id = 1
    /\ current = None
    /\ pass = [c \in Callers |-> None]
    /\ call = [c \in Callers |-> Idle]
    /\ landed = {} /\ dropped = {}
    /\ last = [k \in Kinds |-> 0]
    /\ faults = 0

-----------------------------------------------------------------------------
(* The table. *)

pending == {o \in ops : ~o.refused}
queued_ids == {o.id : o \in pending}
of_kind(k) == {o \in ops : o.kind = k}
carried(set) == UNION {o.carries : o \in set}
newest(set) == CHOOSE o \in set : \A p \in set : p.id <= o.id
oldest(set) == CHOOSE o \in set : \A p \in set : o.id <= p.id

new_op(k, form, names, carries) ==
    [id |-> next_id, kind |-> k, form |-> form, names |-> names,
     carries |-> carries \cup {next_id}, attempts |-> 0, refused |-> FALSE]

(* The newest op of the review still waiting, when it is a patch: a later  *)
(* patch is folded over it, field by field.                                *)
foldable(k) ==
    LET waiting == of_kind(k) \cap pending IN
    IF waiting # {} /\ newest(waiting).form = "patch" THEN {newest(waiting)} ELSE {}

(* A coalescing write replaces every op of its kind, the refused included. *)
insertOp(o, replaced, folded) ==
    /\ ops' = (ops \ (replaced \cup folded)) \cup {o}
    /\ next_id' = next_id + 1
    /\ dropped' = dropped \cup carried(replaced)

enqueue_value(k) == insertOp(new_op(k, "value", None, {}), of_kind(k), {})

enqueue_create(k) == insertOp(new_op(k, "create", next_id, {}), {}, {})

(* An edit of a passage this device has made, landed or not. *)
enqueue_edit(k) ==
    \E t \in landed \cup {o.id : o \in {p \in ops : p.form = "create"}} :
        insertOp(new_op(k, "edit", t, {}), {}, {})

enqueue_delete(k) == insertOp(new_op(k, "delete", None, {}), of_kind(k), {})

enqueueFieldPatch(k) ==
    insertOp(new_op(k, "patch", None, carried(foldable(k))), {}, foldable(k))

enqueue ==
    /\ next_id <= MaxOps
    /\ \/ \E k \in Positions : enqueue_value(k)
       \/ \E k \in Gestures : enqueue_create(k) \/ enqueue_edit(k)
       \/ \E k \in Reviews : enqueue_delete(k) \/ enqueueFieldPatch(k)

-----------------------------------------------------------------------------
(* Callers. *)

(* Queue a write. write then asks for a drain, record leaves that to others. *)
record ==
    /\ enqueue
    /\ UNCHANGED <<current, pass, call, landed, last, faults>>

maxOpId == Max({o.id : o \in ops} \cup {0})

(* A drain, asked for by a write or a life cycle event at any time, or by  *)
(* the retry loop while something waits: it captures its ceiling before it *)
(* joins or starts anything.                                               *)
drain_asked(c) ==
    /\ call[c].at = "idle"
    /\ c = Timer => pending # {}
    /\ call' = [call EXCEPT ![c].at = "bounded", ![c].bound = maxOpId]
    /\ UNCHANGED <<ops, next_id, current, pass, history, faults>>

(* Mutant: a caller joins whatever pass is under way. *)
satisfied_always(bound, other) == TRUE

(* A pass serves a caller when it reaches at least as far. *)
satisfied(bound, other) == other >= bound

(* Mutant: the new pass does not wait for the one under way. *)
chained_freely(previous) == None

(* A new pass waits for the one it replaces. *)
chained(previous) == previous

(* Join the current pass if it reaches far enough; else chain one. *)
drain(c) ==
    /\ call[c].at = "bounded"
    /\ IF current # None /\ satisfied(call[c].bound, current.bound)
       THEN /\ call' = [call EXCEPT ![c].at = "waiting",
                                    ![c].pass = current.pass]
            /\ UNCHANGED <<current, pass>>
       ELSE LET previous == IF current = None THEN None ELSE current.pass IN
            /\ pass' = [pass EXCEPT ![c] =
                  [at |-> "listing", after |-> chained(previous),
                   bound |-> call[c].bound, todo |-> {}, read |-> 0,
                   op |-> None, stalled |-> {}, retired |-> 0,
                   stopped |-> FALSE]]
            /\ current' = [bound |-> call[c].bound, pass |-> c]
            /\ call' = [call EXCEPT ![c].at = "waiting", ![c].pass = c]
    /\ UNCHANGED <<ops, next_id, history, faults>>

-----------------------------------------------------------------------------
(* A pass. *)

goto(c, at) == pass' = [pass EXCEPT ![c].at = at]
at(c, label) == pass[c] # None /\ pass[c].at = label

(* The oldest LIMIT ops waiting, up to the pass's ceiling. *)
listed(bound) ==
    LET waiting == {o \in pending : o.id <= bound} IN
    {o \in waiting : Cardinality({p \in waiting : p.id < o.id}) < LIMIT}

listOps(c) ==
    /\ at(c, "listing") /\ pass[c].after = None
    /\ LET rows == listed(pass[c].bound) IN
       pass' = [pass EXCEPT ![c].at = "sweeping", ![c].todo = rows,
                            ![c].read = Cardinality(rows),
                            ![c].stalled = {}, ![c].retired = 0]
    /\ UNCHANGED <<ops, next_id, current, call, history, faults>>

(* Mutant: a stalled kind is sent all the same. *)
sendable_unstalled(p) == p.todo

(* What is left to send: a kind that stalled waits for the next pass. *)
sendable(p) == {o \in p.todo : o.kind \notin p.stalled}

(* The sweep works from the rows as it read them. *)
replay(c) ==
    /\ at(c, "sweeping") /\ sendable(pass[c]) # {}
    /\ LET op == oldest(sendable(pass[c])) IN
       pass' = [pass EXCEPT ![c].at = "sent", ![c].op = op,
                            ![c].todo = @ \ {op}]
    /\ UNCHANGED <<ops, next_id, current, call, history, faults>>

(* The server has what the op addresses. *)
addressable(o) == o.form = "edit" => o.names \in landed

taken(o) ==
    /\ landed' = landed \cup o.carries
    /\ last' = [last EXCEPT ![o.kind] = o.id]

not_taken == UNCHANGED <<landed, last>>

fault == faults < MaxFaults /\ faults' = faults + 1

next_op(c) == pass' = [pass EXCEPT ![c].at = "sweeping", ![c].op = None]
retired(c) == pass' = [pass EXCEPT ![c].at = "sweeping", ![c].op = None,
                                   ![c].retired = @ + 1]

(* Mutant: a reply deletes every op of its kind. *)
deleted_kind(o) == of_kind(o.kind)

(* A reply deletes the op it answers. *)
deleted(o) == {p \in ops : p.id = o.id}

(* A 2xx: the op is deleted, one at a time.  A reply and the store call it  *)
(* leads to are one step: a write that falls between them could as well    *)
(* have come before the reply, and a kill there is a kill with the request *)
(* taken.                                                                  *)
deleteOps(c) ==
    /\ at(c, "sent") /\ addressable(pass[c].op)
    /\ taken(pass[c].op)
    /\ ops' = ops \ deleted(pass[c].op)
    /\ retired(c)
    /\ UNCHANGED <<next_id, current, call, dropped, faults>>

(* Offline, unauthorized or cancelled, with the request taken or not. *)
stop(c) ==
    /\ at(c, "sent") /\ fault
    /\ \/ addressable(pass[c].op) /\ taken(pass[c].op)
       \/ not_taken
    /\ pass' = [pass EXCEPT ![c].at = "ending", ![c].stopped = TRUE,
                            ![c].op = None, ![c].todo = {}]
    /\ UNCHANGED <<ops, next_id, current, call, dropped>>

(* Mutant: an op held aside is put back if it has been deleted since. *)
held_aside_inserted(set) == ops \cup {[o EXCEPT !.refused = TRUE] : o \in set}

(* The rows still there are held aside, one that is gone stays gone. *)
held_aside(set) ==
    {[o EXCEPT !.refused = o.refused \/ o \in set] : o \in ops}

(* A terminal 4xx: a 404 for what was never made, or any refusal. *)
noteOpFailure(c) ==
    /\ at(c, "sent")
    /\ \/ ~addressable(pass[c].op) /\ UNCHANGED faults
       \/ addressable(pass[c].op) /\ fault
    /\ ops' = held_aside(deleted(pass[c].op))
    /\ IF pass[c].op.form = "create" THEN goto(c, "references") ELSE retired(c)
    /\ UNCHANGED <<next_id, current, call, history>>

(* A refused create holds aside what was queued behind it for it. *)
failOpsReferencing(c) ==
    /\ at(c, "references")
    /\ ops' = held_aside({o \in pending : /\ o.id > pass[c].op.id
                                          /\ o.names = pass[c].op.id})
    /\ retired(c)
    /\ UNCHANGED <<next_id, current, call, history, faults>>

isExemptFromReplayCap(k) == k \in Positions

attempted(o) == [o EXCEPT !.attempts = Min({@ + 1, maxReplayAttempts + 1})]

(* Anything else, a 5xx most likely: count the attempt, and stall the kind  *)
(* for the rest of the sweep.                                              *)
noteOpAttempt(c) ==
    /\ at(c, "sent") /\ fault
    /\ LET row == deleted(pass[c].op)
           spent == \E o \in row :
                       /\ o.attempts + 1 >= maxReplayAttempts
                       /\ ~isExemptFromReplayCap(o.kind)
       IN
       /\ ops' = (ops \ row) \cup {attempted(o) : o \in row}
       /\ pass' = [pass EXCEPT ![c].at = IF spent THEN "spent" ELSE "sweeping",
                               ![c].op = IF spent THEN @ ELSE None,
                               ![c].stalled = @ \cup {pass[c].op.kind}]
    /\ UNCHANGED <<next_id, current, call, history>>

park(c) ==
    /\ at(c, "spent")
    /\ ops' = held_aside(deleted(pass[c].op))
    /\ next_op(c)
    /\ UNCHANGED <<next_id, current, call, history, faults>>

(* Sweep again as long as something left the queue. *)
mayContinue(p) == p.retired > 0

sweep_ends(c) ==
    /\ at(c, "sweeping") /\ sendable(pass[c]) = {}
    /\ pass' = [pass EXCEPT
          ![c].at = IF mayContinue(pass[c]) THEN "listing" ELSE "ending",
          ![c].todo = {}]
    /\ UNCHANGED <<ops, next_id, current, call, history, faults>>

(* Mutant: a finished pass keeps the slot. *)
released_never(c) == FALSE

(* The slot is cleared only if it is still this pass's. *)
released(c) == current # None /\ current.pass = c

(* The slot is cleared if it is still this pass's, and the task completes: *)
(* the pass chained behind it starts, and everyone who joined it goes on.  *)
releaseCurrent(c) ==
    /\ at(c, "ending")
    /\ current' = IF released(c) THEN None ELSE current
    /\ pass' = [d \in Callers |->
           IF d = c THEN None
           ELSE IF pass[d] # None /\ pass[d].after = c
                THEN [pass[d] EXCEPT !.after = None] ELSE pass[d]]
    /\ call' = [d \in Callers |->
           IF call[d].at = "waiting" /\ call[d].pass = c
           THEN Idle ELSE call[d]]
    /\ UNCHANGED <<ops, next_id, history, faults>>

-----------------------------------------------------------------------------
(* The reader forgets the refused writes. *)
discardRejectedOps ==
    /\ pending # ops
    /\ ops' = pending
    /\ dropped' = dropped \cup carried(ops \ pending)
    /\ UNCHANGED <<next_id, current, pass, call, landed, last, faults>>

(* The app is killed: a request on its way is taken or not. *)
killed ==
    /\ fault
    /\ current' = None
    /\ pass' = [c \in Callers |-> None]
    /\ call' = [c \in Callers |-> Idle]
    /\ \/ not_taken
       \/ \E c \in Callers : /\ at(c, "sent") /\ addressable(pass[c].op)
                             /\ taken(pass[c].op)
    /\ UNCHANGED <<ops, next_id, dropped>>

Drain(c) ==
    \/ drain(c)
    \/ listOps(c) \/ replay(c)
    \/ deleteOps(c) \/ stop(c) \/ noteOpFailure(c) \/ failOpsReferencing(c)
    \/ noteOpAttempt(c) \/ park(c) \/ sweep_ends(c) \/ releaseCurrent(c)

Next ==
    \/ record \/ discardRejectedOps \/ killed
    \/ \E c \in Callers : drain_asked(c) \/ Drain(c)

Spec == Init /\ [][Next]_vars

(* Actors run what is ready, requests end, and Connectivity's retry loop   *)
(* asks again while something waits; nothing is asked of readers.          *)
Fairness ==
    /\ \A c \in Callers : WF_vars(Drain(c))
    /\ WF_vars(drain_asked(Timer))

FairSpec == Spec /\ Fairness

-----------------------------------------------------------------------------
(* Properties. *)

(* "Two concurrent passes would both read the same rows and replay them    *)
(* twice": however drains are asked for, joined, chained and released, one *)
(* pass works at a time (drain, releaseCurrent).                           *)
OnePassAtATime ==
    \A c, d \in Callers :
        /\ pass[c] # None /\ pass[c].at # "listing"
        /\ pass[d] # None /\ pass[d].at # "listing"
        => c = d

(* Every write ever queued has landed, was replaced or discarded, or is    *)
(* still in the table under some op, refused or waiting: an op folded or   *)
(* coalesced under a running pass takes nothing of the new one with it     *)
(* when the old one lands (deleteOps by id, enqueueFieldPatch).            *)
NothingForgotten ==
    \A i \in 1 .. next_id - 1 : i \in landed \cup dropped \cup carried(ops)

(* "Order within a kind is load-bearing": the server takes the ops of a    *)
(* kind in the order they were queued, through failures, stalls, parked    *)
(* ops and replays after a kill (sweep).                                   *)
KindInOrder == [][\A k \in Kinds : last'[k] >= last[k]]_vars

(* What drain promises, "everything queued as of now", also to a caller    *)
(* that joined: when its pass ends and was not stopped, all that still     *)
(* waits below its ceiling is of a kind that stalled, or lay behind a full *)
(* read of LIMIT rows.                                                     *)
DrainKeepsPromise ==
    \A c, d \in Callers :
        /\ at(c, "ending") /\ ~pass[c].stopped
        /\ call[d].at = "waiting" /\ call[d].pass = c
        => \/ pass[c].read = LIMIT
           \/ \A o \in pending :
                 o.id <= call[d].bound => o.kind \in pass[c].stalled

(* Writes come to an end here (MaxOps); so does the queue: every write is   *)
(* taken, replaced, or held aside for the reader to see, on the strength   *)
(* of the retry loop of Connectivity.swift alone, and no drain waits for a *)
(* pass that is gone.                                                      *)
QueueEmpties == []<>(pending = {})
=============================================================================
