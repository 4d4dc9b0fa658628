---------------------------- MODULE WorkerProofs ----------------------------
(***************************************************************************)
(* Proofs about Worker for every number of tasks, every set of keys, every *)
(* capacity and every set of callers.                                      *)
(***************************************************************************)
EXTENDS WorkerRefinement, SequenceTheorems, FiniteSetTheorems, TLAPS

(* A task has an outcome from the moment its handler ends. *)
HasOutcome ==
    \A i \in TaskId :
        pc[i] \in {"posting", "record", "unlock", "drop_arc", "prune",
                   "release", "finish", "send", "guard", "slot", "close",
                   "done"}
        => outcome[i] \in TaskOutcome

(* Ids are handed out in order: exactly the ids below next_id are posted. *)
Posted ==
    \A i \in TaskId :
        /\ pc[i] # "unposted" => tasks[i] \in Task
        /\ i >= next_id => pc[i] = "unposted"

(* The pcs at which a future has a clone of its mutex, as far as the pc    *)
(* alone tells; "release" belongs here on the unwinding path only.         *)
HasClone(i) ==
    \/ pc[i] \in {"lock", "queued", "permit", "running", "posting", "record",
                  "unlock", "drop_arc"}
    \/ pc[i] = "release" /\ panicked(i)

HasLock(i) ==
    \/ pc[i] \in {"permit", "running", "posting", "record", "unlock"}
    \/ pc[i] = "release" /\ panicked(i)

(* The happy path is not the unwinding path. *)
HappyPath ==
    \A i \in TaskId :
        pc[i] \in {"posting", "record", "prune"} => ~panicked(i)

(* A clone is never stale: while a task has one, the map has the mutex.    *)
ClonesInMap ==
    \A i \in TaskId :
        /\ HasClone(i) => arc[i] \in TaskId
        /\ arc[i] # None =>
              tasks[i] \in Task /\ HasClone(i) /\ resource_locks[key(i)] = arc[i]

(* A task that got past its lock is at the head of its queue. *)
LockHolders == \A i \in TaskId : HasLock(i) => holder(i)

(* A caller waits for a task, and a channel carries an outcome. *)
Channels ==
    /\ \A c \in Callers : caller[c].at = "waiting" => caller[c].id \in TaskId
    /\ \A i \in TaskId : tx[i] = "sent" => outcome[i] \in TaskOutcome

IInv == /\ TypeOK
        /\ HasOutcome
        /\ Posted
        /\ HappyPath
        /\ ClonesInMap
        /\ LockHolders
        /\ Channels

-----------------------------------------------------------------------------
(* resource_key maps tasks to the keys of the lock map. *)
LEMMA KeyType == \A t \in Task : resource_key(t) \in Keys
  BY DEF Keys

(* Messages and details are outcomes (types.rs TaskOutcome). *)
LEMMA OutcomeType ==
    /\ \A t \in Task : handler_outcomes(t) \subseteq TaskOutcome
    /\ \A t \in Task : Err("task panicked") \notin handler_outcomes(t)
    /\ Err("task panicked") \in TaskOutcome
  <1>1. /\ Err("task panicked") # Ok("plain")
        /\ Err("task panicked") # Ok("GhostFiles")
        /\ Err("task panicked") # Ok("BakeErrors")
        /\ Err("task panicked") # Err("failed")
    BY DEF Ok, Err
  <1>2. /\ Ok("plain") \in TaskOutcome /\ Ok("GhostFiles") \in TaskOutcome
        /\ Ok("BakeErrors") \in TaskOutcome /\ Err("failed") \in TaskOutcome
        /\ Err("task panicked") \in TaskOutcome
    BY DEF TaskOutcome, Ok, Err, Messages
  <1> QED BY <1>1, <1>2 DEF handler_outcomes

(* A task waits for one of the three semaphores or for none. *)
LEMMA SemaphoreType == \A t : semaphore_of(t) \in Semaphores \cup {None}
  BY DEF semaphore_of, Semaphores

(* Every variant has a wire-facing kind. *)
LEMMA KindType == \A t : kind(t) \in Kinds
  BY DEF kind, Kinds

(* The progress entries the worker writes are progress entries. *)
LEMMA EntryType ==
    /\ Absent \in ProgressEntry
    /\ seed_progress_entry \in ProgressEntry
    /\ \A e \in ProgressEntry, o \in TaskOutcome :
          project_terminal(e, o) \in ProgressEntry
    /\ \A e \in ProgressEntry : panic_terminal(e) \in ProgressEntry
  <1>1. Absent \in ProgressEntry
    BY BoundsAssumption DEF Absent, ProgressEntry, Messages
  <1>2. seed_progress_entry \in ProgressEntry
    BY BoundsAssumption DEF seed_progress_entry, ProgressEntry, Messages
  <1>3. ASSUME NEW e \in ProgressEntry, NEW o \in TaskOutcome
        PROVE  project_terminal(e, o) \in ProgressEntry
    <2>1. o.ok \in BOOLEAN
      BY DEF TaskOutcome
    <2>2. ~o.ok => o.text \in Messages
      BY DEF TaskOutcome
    <2> DEFINE g == (o = Ok("GhostFiles"))
               b == (o = Ok("BakeErrors"))
    <2>3. g \in BOOLEAN /\ b \in BOOLEAN
      OBVIOUS
    <2>4. project_terminal(e, o) =
            [e EXCEPT !.state = IF o.ok THEN "Done" ELSE "Failed",
                      !.ghost_warning = g, !.bake_errors = b,
                      !.message = IF o.ok THEN "" ELSE o.text]
      BY DEF project_terminal
    <2> HIDE DEF g, b
    <2> QED BY <2>1, <2>2, <2>3, <2>4 DEF ProgressEntry, Messages
  <1>4. \A e \in ProgressEntry : panic_terminal(e) \in ProgressEntry
    BY DEF panic_terminal, ProgressEntry, Messages
  <1> QED BY <1>1, <1>2, <1>3, <1>4

(* Joining a queue that is not empty leaves its head in place. *)
LEMMA HeadAppend ==
    ASSUME NEW q \in Seq(TaskId), q # << >>, NEW j \in TaskId
    PROVE  Append(q, j) # << >> /\ Head(Append(q, j)) = Head(q)
  BY AppendProperties

(* `post` keeps the invariant, whoever calls it: the new task has no clone *)
(* and no lock, and nothing else moves.                                    *)
LEMMA post_step ==
    ASSUME IInv, NEW t \in Task, post(t), posts' \in [TaskId -> Nat],
           UNCHANGED <<outcome, locks, completion_timings, rows, tx, caller,
                       taken>>
    PROVE  IInv'
  <1>1. /\ next_id \in TaskId /\ next_id' = next_id + 1
        /\ pc' = [pc EXCEPT ![next_id] = "start"]
        /\ tasks' = [tasks EXCEPT ![next_id] = t]
        /\ completions' = completions \cup {next_id}
        /\ progress' = [progress EXCEPT ![next_id] = seed_progress_entry]
        /\ UNCHANGED <<arc, resource_locks, queue, permits, waiting>>
    BY DEF post, goto, locks
  <1>2. next_id \in Nat /\ MaxTasks \in Nat
    BY <1>1, BoundsAssumption DEF TaskId
  <1>3. pc[next_id] = "unposted"
    BY <1>1, <1>2 DEF IInv, Posted
  <1>4. arc[next_id] = None
    BY <1>1, <1>3 DEF IInv, ClonesInMap, HasClone
  <1>5. TypeOK'
    <2>1. progress' \in [TaskId -> ProgressEntry]
      BY <1>1, EntryType DEF IInv, TypeOK
    <2>2. next_id' \in 1 .. MaxTasks + 1
      BY <1>1, <1>2 DEF TaskId
    <2> QED BY <1>1, <2>1, <2>2 DEF IInv, TypeOK, Locations
  <1>6. HasOutcome'
    BY <1>1, <1>3 DEF IInv, TypeOK, HasOutcome
  <1>7. Posted'
    <2> SUFFICES ASSUME NEW j \in TaskId
                 PROVE  /\ pc'[j] # "unposted" => tasks'[j] \in Task
                        /\ j >= next_id' => pc'[j] = "unposted"
      BY DEF Posted
    <2>1. CASE j = next_id
      <3>1. tasks'[j] = t
        BY <1>1, <2>1 DEF IInv, TypeOK
      <3>2. ~(next_id >= next_id + 1)
        BY <1>2
      <3> QED BY <1>1, <2>1, <3>1, <3>2
    <2>2. CASE j # next_id
      <3>1. j >= next_id + 1 => j >= next_id
        BY <1>2 DEF TaskId
      <3> QED BY <1>1, <2>2, <3>1 DEF IInv, TypeOK, Posted
    <2> QED BY <2>1, <2>2
  <1>8. HappyPath'
    BY <1>1, <1>3 DEF IInv, TypeOK, HappyPath, panicked
  <1>9. ClonesInMap'
    BY <1>1, <1>3, <1>4, NoneAssumption, ZenonT(60)
       DEF IInv, TypeOK, ClonesInMap, HasClone, panicked, key
  <1>10. LockHolders'
    BY <1>1, <1>3 DEF IInv, TypeOK, LockHolders, HasLock, holder, panicked
  <1>11. Channels'
    BY DEF IInv, Channels
  <1> QED BY <1>5, <1>6, <1>7, <1>8, <1>9, <1>10, <1>11 DEF IInv

-----------------------------------------------------------------------------
(* One lemma per step of a future. *)

(* persist_task_start keeps the invariant. *)
LEMMA step_persist_task_start ==
    ASSUME IInv, NEW i \in TaskId, persist_task_start(i)
    PROVE  IInv'
  <1> USE NoneAssumption, BoundsAssumption
          DEF persist_task_start, IInv, future, locks, ledger, slots, goto
  <1>1. TypeOK'
    BY DEF TypeOK, Locations, HasOutcome, Posted
  <1>2. HasOutcome'
    BY DEF TypeOK, HasOutcome
  <1>3. Posted'
    BY DEF TypeOK, Posted
  <1>4. HappyPath'
    BY DEF TypeOK, HappyPath, panicked
  <1>5. ClonesInMap'
    BY ZenonT(60)
       DEF TypeOK, ClonesInMap, HasClone, HappyPath, Posted, panicked, key
  <1>6. LockHolders'
    BY ZenonT(60)
       DEF TypeOK, LockHolders, HasLock, HasClone, ClonesInMap, holder, panicked, HappyPath
  <1>7. Channels'
    BY DEF TypeOK, Channels
  <1> QED BY <1>1, <1>2, <1>3, <1>4, <1>5, <1>6, <1>7

(* clone_resource_lock keeps the invariant. *)
LEMMA step_clone_resource_lock ==
    ASSUME IInv, NEW i \in TaskId, clone_resource_lock(i)
    PROVE  IInv'
  <1> USE NoneAssumption, BoundsAssumption
          DEF clone_resource_lock, IInv, future, locks, ledger, slots, goto
  <1>1. TypeOK'
    BY KeyType DEF TypeOK, Locations, HasOutcome, Posted, key
  <1>2. HasOutcome'
    BY DEF TypeOK, HasOutcome
  <1>3. Posted'
    BY DEF TypeOK, Posted
  <1>4. HappyPath'
    BY DEF TypeOK, HappyPath, panicked
  <1>5. ClonesInMap'
    <2> DEFINE m == IF resource_locks[key(i)] = None THEN i
                    ELSE resource_locks[key(i)]
    <2>1. key(i) \in Keys /\ m \in TaskId /\ tasks[i] \in Task
      BY KeyType DEF TypeOK, Posted, key
    <2>2. /\ arc' = [arc EXCEPT ![i] = m]
          /\ resource_locks' = [resource_locks EXCEPT ![key(i)] = m]
          /\ resource_locks[key(i)] # None => resource_locks[key(i)] = m
          /\ pc' = [pc EXCEPT ![i] = "lock"]
          /\ UNCHANGED <<tasks, outcome>>
      OBVIOUS
    <2> HIDE DEF m, clone_resource_lock
    <2> SUFFICES ASSUME NEW j \in TaskId
                 PROVE  /\ HasClone(j)' => arc'[j] \in TaskId
                        /\ arc'[j] # None =>
                             /\ tasks'[j] \in Task
                             /\ HasClone(j)'
                             /\ resource_locks'[key(j)'] = arc'[j]
      BY DEF ClonesInMap
    <2>3. key(j)' = key(j)
      BY <2>2 DEF key
    <2>4. CASE j = i
      <3>1. arc'[j] = m /\ resource_locks'[key(j)] = m /\ pc'[j] = "lock"
        BY <2>1, <2>2, <2>4 DEF TypeOK
      <3> QED BY <2>1, <2>2, <2>3, <2>4, <3>1 DEF HasClone
    <2>5. CASE j # i
      <3>1. arc'[j] = arc[j] /\ HasClone(j)' = HasClone(j)
        BY <2>2, <2>5 DEF TypeOK, HasClone, panicked
      <3>2. arc[j] # None => key(j) \in Keys
        BY KeyType DEF ClonesInMap, key
      <3>3. ASSUME arc[j] # None
            PROVE  resource_locks'[key(j)] = arc[j]
        <4>1. resource_locks[key(j)] = arc[j] /\ key(j) \in Keys
          BY <3>2, <3>3 DEF ClonesInMap
        <4>2. CASE key(j) = key(i)
          BY <2>1, <2>2, <3>3, <4>1, <4>2 DEF TypeOK
        <4>3. CASE key(j) # key(i)
          BY <2>1, <2>2, <4>1, <4>3 DEF TypeOK
        <4> QED BY <4>2, <4>3
      <3> QED BY <2>2, <2>3, <3>1, <3>3 DEF ClonesInMap
    <2> QED BY <2>4, <2>5
  <1>6. LockHolders'
    BY ZenonT(60)
       DEF TypeOK, LockHolders, HasLock, HasClone, ClonesInMap, holder, panicked, HappyPath
  <1>7. Channels'
    BY DEF TypeOK, Channels
  <1> QED BY <1>1, <1>2, <1>3, <1>4, <1>5, <1>6, <1>7

(* lock_owned keeps the invariant. *)
LEMMA step_lock_owned ==
    ASSUME IInv, NEW i \in TaskId, lock_owned(i)
    PROVE  IInv'
  <1> USE NoneAssumption, BoundsAssumption
          DEF lock_owned, IInv, future, locks, ledger, slots, goto
  <1>1. TypeOK'
    <2>1. arc[i] \in TaskId
      BY DEF ClonesInMap, HasClone
    <2>2. Append(queue[arc[i]], i) \in Seq(TaskId)
      BY <2>1, AppendProperties, ZenonT(60) DEF TypeOK
    <2>3. queue' \in [TaskId -> Seq(TaskId)]
      BY <2>2 DEF TypeOK
    <2> QED BY <2>3 DEF TypeOK, Locations
  <1>2. HasOutcome'
    BY DEF TypeOK, HasOutcome
  <1>3. Posted'
    BY DEF TypeOK, Posted
  <1>4. HappyPath'
    BY DEF TypeOK, HappyPath, panicked
  <1>5. ClonesInMap'
    BY ZenonT(60)
       DEF TypeOK, ClonesInMap, HasClone, HappyPath, Posted, panicked, key
  <1>6. LockHolders'
    <2> SUFFICES ASSUME NEW j \in TaskId, HasLock(j)'
                 PROVE  holder(j)'
      BY DEF LockHolders
    <2>1. j # i /\ HasLock(j) /\ arc[j] \in TaskId /\ arc[i] \in TaskId
      BY DEF TypeOK, HasLock, HasClone, ClonesInMap, panicked
    <2>2. holder(j)
      BY <2>1 DEF LockHolders
    <2>3. queue[arc[j]] \in Seq(TaskId)
      BY <2>1 DEF TypeOK
    <2>4. CASE arc[j] = arc[i]
      <3>1. queue'[arc[j]] = Append(queue[arc[j]], i)
        BY <2>1, <2>4 DEF TypeOK
      <3> QED BY <2>2, <2>3, <3>1, HeadAppend DEF holder
    <2>5. CASE arc[j] # arc[i]
      BY <2>1, <2>2, <2>5 DEF TypeOK, holder
    <2> QED BY <2>4, <2>5
  <1>7. Channels'
    BY DEF TypeOK, Channels
  <1> QED BY <1>1, <1>2, <1>3, <1>4, <1>5, <1>6, <1>7

(* acquire_permit keeps the invariant. *)
LEMMA step_acquire_permit ==
    ASSUME IInv, NEW i \in TaskId, acquire_permit(i)
    PROVE  IInv'
  <1> USE NoneAssumption, BoundsAssumption
          DEF acquire_permit, IInv, future, locks, ledger, slots, goto
  <1>1. TypeOK'
    <2> DEFINE s == semaphore_of(tasks[i])
    <2>1. s \in Semaphores \cup {None}
      BY SemaphoreType
    <2>2. pc' = [pc EXCEPT ![i] = "running"] \/ pc' = [pc EXCEPT ![i] = "permit"]
      OBVIOUS
    <2>3. /\ \/ permits' = permits
             \/ s # None /\ permits' = [permits EXCEPT ![s] = permits[s] \cup {i}]
          /\ \/ waiting' = waiting
             \/ s # None /\ waiting' = [waiting EXCEPT ![s] = Append(waiting[s], i)]
          /\ UNCHANGED <<next_id, tasks, posts, outcome, arc, resource_locks,
                         queue, ledger, slots>>
      OBVIOUS
    <2> HIDE DEF s, acquire_permit
    <2>4. pc' \in [TaskId -> Locations]
      BY <2>2 DEF TypeOK, Locations
    <2>5. permits' \in [Semaphores -> SUBSET TaskId]
      <3>1. s # None => permits[s] \cup {i} \in SUBSET TaskId
        BY <2>1 DEF TypeOK
      <3> QED BY <2>1, <2>3, <3>1, ZenonT(60) DEF TypeOK
    <2>6. waiting' \in [Semaphores -> Seq(TaskId)]
      <3>1. s # None => Append(waiting[s], i) \in Seq(TaskId)
        BY <2>1, AppendProperties DEF TypeOK
      <3> QED BY <2>1, <2>3, <3>1 DEF TypeOK
    <2> QED BY <2>3, <2>4, <2>5, <2>6 DEF TypeOK
  <1>2. HasOutcome'
    <2>1. PICK l \in {"running", "permit"} : pc' = [pc EXCEPT ![i] = l]
      OBVIOUS
    <2>2. /\ pc[i] = "queued" /\ holder(i)
          /\ UNCHANGED <<tasks, outcome, arc, resource_locks, queue>>
      OBVIOUS
    <2> HIDE DEF acquire_permit
    <2> QED BY <2>1, <2>2 DEF TypeOK, HasOutcome
  <1>3. Posted'
    <2>1. PICK l \in {"running", "permit"} : pc' = [pc EXCEPT ![i] = l]
      OBVIOUS
    <2>2. /\ pc[i] = "queued" /\ holder(i)
          /\ UNCHANGED <<next_id, tasks, outcome, arc, resource_locks, queue>>
      OBVIOUS
    <2> HIDE DEF acquire_permit
    <2> QED BY <2>1, <2>2 DEF TypeOK, Posted
  <1>4. HappyPath'
    <2>1. PICK l \in {"running", "permit"} : pc' = [pc EXCEPT ![i] = l]
      OBVIOUS
    <2>2. /\ pc[i] = "queued" /\ holder(i)
          /\ UNCHANGED <<tasks, outcome, arc, resource_locks, queue>>
      OBVIOUS
    <2> HIDE DEF acquire_permit
    <2> QED BY <2>1, <2>2 DEF TypeOK, HappyPath, panicked
  <1>5. ClonesInMap'
    <2>1. PICK l \in {"running", "permit"} : pc' = [pc EXCEPT ![i] = l]
      OBVIOUS
    <2>2. /\ pc[i] = "queued" /\ holder(i)
          /\ UNCHANGED <<tasks, outcome, arc, resource_locks, queue>>
      OBVIOUS
    <2> HIDE DEF acquire_permit
    <2> QED BY <2>1, <2>2 DEF TypeOK, ClonesInMap, HasClone, panicked, key
  <1>6. LockHolders'
    <2>1. PICK l \in {"running", "permit"} : pc' = [pc EXCEPT ![i] = l]
      OBVIOUS
    <2>2. /\ pc[i] = "queued" /\ holder(i)
          /\ UNCHANGED <<tasks, outcome, arc, resource_locks, queue>>
      OBVIOUS
    <2> HIDE DEF acquire_permit
    <2> QED BY <2>1, <2>2 DEF TypeOK, LockHolders, HasLock, holder, panicked
  <1>7. Channels'
    BY DEF TypeOK, Channels
  <1> QED BY <1>1, <1>2, <1>3, <1>4, <1>5, <1>6, <1>7

(* permit_granted keeps the invariant. *)
LEMMA step_permit_granted ==
    ASSUME IInv, NEW i \in TaskId, permit_granted(i)
    PROVE  IInv'
  <1> USE NoneAssumption, BoundsAssumption
          DEF permit_granted, IInv, future, locks, ledger, slots, goto
  <1>1. TypeOK'
    BY DEF TypeOK, Locations, HasOutcome, Posted
  <1>2. HasOutcome'
    BY DEF TypeOK, HasOutcome
  <1>3. Posted'
    BY DEF TypeOK, Posted
  <1>4. HappyPath'
    BY DEF TypeOK, HappyPath, panicked
  <1>5. ClonesInMap'
    BY ZenonT(60)
       DEF TypeOK, ClonesInMap, HasClone, HappyPath, Posted, panicked, key
  <1>6. LockHolders'
    BY ZenonT(60)
       DEF TypeOK, LockHolders, HasLock, HasClone, ClonesInMap, holder, panicked, HappyPath
  <1>7. Channels'
    BY DEF TypeOK, Channels
  <1> QED BY <1>1, <1>2, <1>3, <1>4, <1>5, <1>6, <1>7

(* report_progress_update keeps the invariant. *)
LEMMA step_report_progress_update ==
    ASSUME IInv, NEW i \in TaskId, report_progress_update(i)
    PROVE  IInv'
  <1> USE NoneAssumption, BoundsAssumption
          DEF report_progress_update, IInv, future, locks, ledger, slots, goto
  <1>1. TypeOK'
    <2>1. progress[i] \in ProgressEntry /\ progress[i].processed < MaxReports
      BY DEF TypeOK
    <2>2. progress' = [progress EXCEPT ![i] =
                          [progress[i] EXCEPT !.processed = progress[i].processed + 1]]
      BY DEF TypeOK
    <2>3. UNCHANGED <<future, locks, completion_timings, rows, slots>>
      OBVIOUS
    <2> HIDE DEF report_progress_update
    <2>4. progress[i].processed \in 0 .. MaxReports
      BY <2>1 DEF ProgressEntry
    <2>5. progress[i].processed + 1 \in 0 .. MaxReports
      BY <2>1, <2>4
    <2>6. [progress[i] EXCEPT !.processed = progress[i].processed + 1] \in ProgressEntry
      BY <2>1, <2>5 DEF ProgressEntry
    <2>7. progress' \in [TaskId -> ProgressEntry]
      BY <2>2, <2>6 DEF TypeOK
    <2> QED BY <2>3, <2>7 DEF TypeOK
  <1>2. HasOutcome'
    BY DEF TypeOK, HasOutcome
  <1>3. Posted'
    BY DEF TypeOK, Posted
  <1>4. HappyPath'
    BY DEF TypeOK, HappyPath, panicked
  <1>5. ClonesInMap'
    BY DEF TypeOK, ClonesInMap, HasClone, HappyPath, Posted, panicked, key
  <1>6. LockHolders'
    BY DEF TypeOK, LockHolders, HasLock, HasClone, ClonesInMap, holder, panicked, HappyPath
  <1>7. Channels'
    BY DEF TypeOK, Channels
  <1> QED BY <1>1, <1>2, <1>3, <1>4, <1>5, <1>6, <1>7

(* execute keeps the invariant. *)
LEMMA step_execute ==
    ASSUME IInv, NEW i \in TaskId, execute(i)
    PROVE  IInv'
  <1> USE NoneAssumption, BoundsAssumption
          DEF execute, IInv, future, locks, ledger, slots, goto
  <1>1. TypeOK'
    <2>1. PICK o \in handler_outcomes(tasks[i]) :
             outcome' = [outcome EXCEPT ![i] = o]
      OBVIOUS
    <2>2. o \in TaskOutcome /\ o # Err("task panicked")
      BY OutcomeType DEF Posted
    <2>3. /\ pc[i] = "running" /\ pc' = [pc EXCEPT ![i] = "posting"]
          /\ UNCHANGED <<next_id, tasks, posts, arc, resource_locks, queue,
                         permits, waiting, ledger, slots>>
      OBVIOUS
    <2> HIDE DEF execute
    <2> QED BY <2>1, <2>2, <2>3 DEF TypeOK, Locations
  <1>2. HasOutcome'
    <2>1. PICK o \in handler_outcomes(tasks[i]) :
             outcome' = [outcome EXCEPT ![i] = o]
      OBVIOUS
    <2>2. o \in TaskOutcome /\ o # Err("task panicked")
      BY OutcomeType DEF Posted
    <2>3. /\ pc[i] = "running" /\ pc' = [pc EXCEPT ![i] = "posting"]
          /\ UNCHANGED <<next_id, tasks, posts, arc, resource_locks, queue,
                         permits, waiting, ledger, slots>>
      OBVIOUS
    <2> HIDE DEF execute
    <2> QED BY <2>1, <2>2, <2>3 DEF TypeOK, HasOutcome
  <1>3. Posted'
    <2>1. PICK o \in handler_outcomes(tasks[i]) :
             outcome' = [outcome EXCEPT ![i] = o]
      OBVIOUS
    <2>2. o \in TaskOutcome /\ o # Err("task panicked")
      BY OutcomeType DEF Posted
    <2>3. /\ pc[i] = "running" /\ pc' = [pc EXCEPT ![i] = "posting"]
          /\ UNCHANGED <<next_id, tasks, posts, arc, resource_locks, queue,
                         permits, waiting, ledger, slots>>
      OBVIOUS
    <2> HIDE DEF execute
    <2> QED BY <2>1, <2>2, <2>3 DEF TypeOK, Posted
  <1>4. HappyPath'
    <2>1. PICK o \in handler_outcomes(tasks[i]) :
             outcome' = [outcome EXCEPT ![i] = o]
      OBVIOUS
    <2>2. o \in TaskOutcome /\ o # Err("task panicked")
      BY OutcomeType DEF Posted
    <2>3. /\ pc[i] = "running" /\ pc' = [pc EXCEPT ![i] = "posting"]
          /\ UNCHANGED <<next_id, tasks, posts, arc, resource_locks, queue,
                         permits, waiting, ledger, slots>>
      OBVIOUS
    <2> HIDE DEF execute
    <2> QED BY <2>1, <2>2, <2>3 DEF TypeOK, HappyPath, panicked
  <1>5. ClonesInMap'
    <2>1. PICK o \in handler_outcomes(tasks[i]) :
             outcome' = [outcome EXCEPT ![i] = o]
      OBVIOUS
    <2>2. o \in TaskOutcome /\ o # Err("task panicked")
      BY OutcomeType DEF Posted
    <2>3. /\ pc[i] = "running" /\ pc' = [pc EXCEPT ![i] = "posting"]
          /\ UNCHANGED <<next_id, tasks, posts, arc, resource_locks, queue,
                         permits, waiting, ledger, slots>>
      OBVIOUS
    <2> HIDE DEF execute
    <2> QED BY <2>1, <2>3 DEF TypeOK, ClonesInMap, HasClone, panicked, key
  <1>6. LockHolders'
    <2>1. PICK o \in handler_outcomes(tasks[i]) :
             outcome' = [outcome EXCEPT ![i] = o]
      OBVIOUS
    <2>2. o \in TaskOutcome /\ o # Err("task panicked")
      BY OutcomeType DEF Posted
    <2>3. /\ pc[i] = "running" /\ pc' = [pc EXCEPT ![i] = "posting"]
          /\ UNCHANGED <<next_id, tasks, posts, arc, resource_locks, queue,
                         permits, waiting, ledger, slots>>
      OBVIOUS
    <2> HIDE DEF execute
    <2> QED BY <2>1, <2>3 DEF TypeOK, LockHolders, HasLock, holder, panicked
  <1>7. Channels'
    <2>1. PICK o \in handler_outcomes(tasks[i]) :
             outcome' = [outcome EXCEPT ![i] = o]
      OBVIOUS
    <2>2. o \in TaskOutcome /\ o # Err("task panicked")
      BY OutcomeType DEF Posted
    <2>3. /\ pc[i] = "running" /\ pc' = [pc EXCEPT ![i] = "posting"]
          /\ UNCHANGED <<next_id, tasks, posts, arc, resource_locks, queue,
                         permits, waiting, ledger, caller, tx>>
      OBVIOUS
    <2> HIDE DEF execute
    <2> QED BY <2>1, <2>2, <2>3 DEF TypeOK, Channels
  <1> QED BY <1>1, <1>2, <1>3, <1>4, <1>5, <1>6, <1>7

(* post_follow_up keeps the invariant. *)
LEMMA step_post_follow_up ==
    ASSUME IInv, NEW i \in TaskId, post_follow_up(i)
    PROVE  IInv'
  <1> DEFINE v == pending_follow_ups(i)[posts[i] + 1]
             t == [variant |-> v, arg |-> tasks[i].arg]
  <1>1. posts' \in [TaskId -> Nat]
    <2>1. posts' = [posts EXCEPT ![i] = posts[i] + 1]
      BY DEF post_follow_up
    <2>2. posts[i] \in Nat
      BY DEF IInv, TypeOK
    <2>3. posts[i] + 1 \in Nat
      BY <2>2
    <2> QED BY <2>1, <2>3 DEF IInv, TypeOK
  <1>2. /\ pc[i] = "posting"
        /\ UNCHANGED <<outcome, locks, completion_timings, rows, tx, caller, taken>>
    BY DEF post_follow_up
  <1>3. tasks[i] \in Task
    BY <1>2 DEF IInv, Posted
  <1>4. CASE v \in Variants /\ post(t)
    <2>1. t \in Task
      BY <1>3, <1>4 DEF Task
    <2> HIDE DEF t, v
    <2> QED BY <1>1, <1>2, <1>4, <2>1, post_step
  <1>5. CASE UNCHANGED <<next_id, tasks, pc, completions, progress>>
    <2> HIDE DEF t, v
    <2>1. UNCHANGED <<arc, resource_locks, queue, permits, waiting>>
      BY <1>2 DEF locks
    <2>2. TypeOK'
      BY <1>1, <1>2, <1>5, <2>1 DEF IInv, TypeOK
    <2>3. HasOutcome' /\ Posted' /\ HappyPath'
      BY <1>2, <1>5, <2>1 DEF IInv, HasOutcome, Posted, HappyPath, panicked
    <2>4. ClonesInMap' /\ LockHolders' /\ Channels'
      BY <1>2, <1>5, <2>1
         DEF IInv, Channels, ClonesInMap, HasClone, LockHolders, HasLock, holder, panicked, key
    <2> QED BY <2>2, <2>3, <2>4 DEF IInv
  <1> QED BY <1>4, <1>5 DEF post_follow_up

(* panic keeps the invariant. *)
LEMMA step_panic ==
    ASSUME IInv, NEW i \in TaskId, panic(i)
    PROVE  IInv'
  <1> USE NoneAssumption, BoundsAssumption
          DEF panic, IInv, future, locks, ledger, slots, goto
  <1>1. TypeOK'
    BY OutcomeType DEF TypeOK, Locations, HasOutcome, Posted
  <1>2. HasOutcome'
    BY OutcomeType DEF TypeOK, HasOutcome
  <1>3. Posted'
    BY DEF TypeOK, Posted
  <1>4. HappyPath'
    BY DEF TypeOK, HappyPath, panicked
  <1>5. ClonesInMap'
    BY ZenonT(60)
       DEF TypeOK, ClonesInMap, HasClone, HappyPath, Posted, panicked, key
  <1>6. LockHolders'
    BY ZenonT(60)
       DEF TypeOK, LockHolders, HasLock, HasClone, ClonesInMap, holder, panicked, HappyPath
  <1>7. Channels'
    BY OutcomeType DEF TypeOK, Channels
  <1> QED BY <1>1, <1>2, <1>3, <1>4, <1>5, <1>6, <1>7

(* write_terminal_progress keeps the invariant. *)
LEMMA step_write_terminal_progress ==
    ASSUME IInv, NEW i \in TaskId, write_terminal_progress(i)
    PROVE  IInv'
  <1> USE NoneAssumption, BoundsAssumption
          DEF write_terminal_progress, IInv, future, locks, ledger, slots, goto
  <1>1. TypeOK'
    <2>1. progress' \in [TaskId -> ProgressEntry]
      BY EntryType DEF TypeOK, HasOutcome
    <2> QED BY <2>1 DEF TypeOK, Locations
  <1>2. HasOutcome'
    BY DEF TypeOK, HasOutcome
  <1>3. Posted'
    BY DEF TypeOK, Posted
  <1>4. HappyPath'
    BY DEF TypeOK, HappyPath, panicked
  <1>5. ClonesInMap'
    BY DEF TypeOK, ClonesInMap, HasClone, HappyPath, Posted, panicked, key
  <1>6. LockHolders'
    BY ZenonT(60)
       DEF TypeOK, LockHolders, HasLock, HasClone, ClonesInMap, holder, panicked, HappyPath
  <1>7. Channels'
    BY DEF TypeOK, Channels
  <1> QED BY <1>1, <1>2, <1>3, <1>4, <1>5, <1>6, <1>7

(* record_completion keeps the invariant. *)
LEMMA step_record_completion ==
    ASSUME IInv, NEW i \in TaskId, record_completion(i)
    PROVE  IInv'
  <1> USE NoneAssumption, BoundsAssumption
          DEF record_completion, IInv, future, locks, ledger, slots, goto
  <1>1. TypeOK'
    <2>1. kind(tasks[i]) \in Kinds
      BY KindType
    <2>2. \A w \in Seq(TaskId) : push_completion(w, i) \in Seq(TaskId)
      BY DEF push_completion
    <2>3. completion_timings' \in [Kinds -> Seq(TaskId)]
      BY <2>1, <2>2 DEF TypeOK
    <2> QED BY <2>3 DEF TypeOK, Locations
  <1>2. HasOutcome'
    BY DEF TypeOK, HasOutcome
  <1>3. Posted'
    BY DEF TypeOK, Posted
  <1>4. HappyPath'
    BY DEF TypeOK, HappyPath, panicked
  <1>5. ClonesInMap'
    BY DEF TypeOK, ClonesInMap, HasClone, HappyPath, Posted, panicked, key
  <1>6. LockHolders'
    BY DEF TypeOK, LockHolders, HasLock, HasClone, ClonesInMap, holder, panicked, HappyPath
  <1>7. Channels'
    BY DEF TypeOK, Channels
  <1> QED BY <1>1, <1>2, <1>3, <1>4, <1>5, <1>6, <1>7

(* unlock keeps the invariant. *)
LEMMA step_unlock ==
    ASSUME IInv, NEW i \in TaskId, unlock(i)
    PROVE  IInv'
  <1> USE NoneAssumption, BoundsAssumption
          DEF unlock, IInv, future, locks, ledger, slots, goto
  <1>1. TypeOK'
    <2>1. arc[i] \in TaskId /\ holder(i)
      BY DEF ClonesInMap, HasClone, LockHolders, HasLock
    <2>2. Tail(queue[arc[i]]) \in Seq(TaskId)
      BY <2>1, HeadTailProperties DEF TypeOK, holder
    <2>3. queue' \in [TaskId -> Seq(TaskId)]
      BY <2>2 DEF TypeOK
    <2> QED BY <2>3 DEF TypeOK, Locations
  <1>2. HasOutcome'
    BY DEF TypeOK, HasOutcome
  <1>3. Posted'
    BY DEF TypeOK, Posted
  <1>4. HappyPath'
    BY DEF TypeOK, HappyPath, panicked
  <1>5. ClonesInMap'
    BY DEF TypeOK, ClonesInMap, HasClone, HappyPath, Posted, panicked, key
  <1>6. LockHolders'
    <2> SUFFICES ASSUME NEW j \in TaskId, HasLock(j)'
                 PROVE  holder(j)'
      BY DEF LockHolders
    <2>1. j # i /\ HasLock(j) /\ arc[j] \in TaskId /\ arc[i] \in TaskId
      BY DEF TypeOK, HasLock, HasClone, ClonesInMap, panicked
    <2>2. holder(j) /\ holder(i)
      BY <2>1 DEF LockHolders, HasLock
    <2>3. arc[j] # arc[i]
      BY <2>1, <2>2 DEF holder
    <2> QED BY <2>1, <2>2, <2>3 DEF TypeOK, holder
  <1>7. Channels'
    BY DEF TypeOK, Channels
  <1> QED BY <1>1, <1>2, <1>3, <1>4, <1>5, <1>6, <1>7

(* drop_arc keeps the invariant. *)
LEMMA step_drop_arc ==
    ASSUME IInv, NEW i \in TaskId, drop_arc(i)
    PROVE  IInv'
  <1> USE NoneAssumption, BoundsAssumption
          DEF drop_arc, IInv, future, locks, ledger, slots, goto
  <1>1. TypeOK'
    BY DEF TypeOK, Locations, HasOutcome, Posted
  <1>2. HasOutcome'
    BY DEF TypeOK, HasOutcome
  <1>3. Posted'
    BY DEF TypeOK, Posted
  <1>4. HappyPath'
    BY DEF TypeOK, HappyPath, panicked
  <1>5. ClonesInMap'
    BY DEF TypeOK, ClonesInMap, HasClone, HappyPath, Posted, panicked, key
  <1>6. LockHolders'
    BY ZenonT(60)
       DEF TypeOK, LockHolders, HasLock, HasClone, ClonesInMap, holder, panicked, HappyPath
  <1>7. Channels'
    BY DEF TypeOK, Channels
  <1> QED BY <1>1, <1>2, <1>3, <1>4, <1>5, <1>6, <1>7

(* prune_resource_lock keeps the invariant. *)
LEMMA step_prune_resource_lock ==
    ASSUME IInv, NEW i \in TaskId, prune_resource_lock(i)
    PROVE  IInv'
  <1> USE NoneAssumption, BoundsAssumption
          DEF prune_resource_lock, IInv, future, locks, ledger, slots, goto
  <1>1. TypeOK'
    BY KeyType DEF TypeOK, Locations, HasOutcome, Posted, key
  <1>2. HasOutcome'
    BY DEF TypeOK, HasOutcome
  <1>3. Posted'
    BY DEF TypeOK, Posted
  <1>4. HappyPath'
    BY DEF TypeOK, HappyPath, panicked
  <1>5. ClonesInMap'
    <2>1. key(i) \in Keys
      BY KeyType DEF Posted, key
    <2>2. ASSUME NEW j \in TaskId, arc[j] # None
          PROVE  resource_locks'[key(j)] = resource_locks[key(j)]
      <3>1. resource_locks[key(j)] = arc[j] /\ key(j) \in Keys
        BY <2>2, KeyType DEF ClonesInMap, key
      <3> QED BY <2>1, <2>2, <3>1 DEF TypeOK
    <2> QED BY <2>2, ZenonT(60)
               DEF TypeOK, ClonesInMap, HasClone, HappyPath, panicked, key
  <1>6. LockHolders'
    BY ZenonT(60)
       DEF TypeOK, LockHolders, HasLock, HasClone, ClonesInMap, holder, panicked, HappyPath
  <1>7. Channels'
    BY DEF TypeOK, Channels
  <1> QED BY <1>1, <1>2, <1>3, <1>4, <1>5, <1>6, <1>7

(* release_permit keeps the invariant. *)
LEMMA step_release_permit ==
    ASSUME IInv, NEW i \in TaskId, release_permit(i)
    PROVE  IInv'
  <1> USE NoneAssumption, BoundsAssumption
          DEF release_permit, IInv, future, locks, ledger, slots, goto
  <1>1. TypeOK'
    <2> DEFINE s == semaphore_of(tasks[i])
    <2>1. s \in Semaphores \cup {None}
      BY SemaphoreType
    <2>2. pc' \in [TaskId -> Locations]
      BY DEF TypeOK, Locations
    <2>3. \/ UNCHANGED <<permits, waiting>>
          \/ /\ s # None /\ waiting[s] = << >> /\ UNCHANGED waiting
             /\ permits' = [permits EXCEPT ![s] = permits[s] \ {i}]
          \/ /\ s # None /\ waiting[s] # << >>
             /\ permits' = [permits EXCEPT ![s] = (permits[s] \ {i}) \cup {Head(waiting[s])}]
             /\ waiting' = [waiting EXCEPT ![s] = Tail(@)]
      BY DEF give_back
    <2>4. UNCHANGED <<next_id, tasks, posts, outcome, arc, resource_locks, queue,
                      ledger, slots>>
      OBVIOUS
    <2> HIDE DEF s, release_permit
    <2>5. s # None /\ waiting[s] # << >> =>
             Head(waiting[s]) \in TaskId /\ Tail(waiting[s]) \in Seq(TaskId)
      BY <2>1, HeadTailProperties DEF TypeOK
    <2>6. permits' \in [Semaphores -> SUBSET TaskId]
      <3>1. s # None => permits[s] \ {i} \in SUBSET TaskId
        BY <2>1 DEF TypeOK
      <3>2. s # None /\ waiting[s] # << >> =>
               (permits[s] \ {i}) \cup {Head(waiting[s])} \in SUBSET TaskId
        BY <3>1, <2>5
      <3> QED BY <2>1, <2>3, <3>1, <3>2 DEF TypeOK
    <2>7. waiting' \in [Semaphores -> Seq(TaskId)]
      BY <2>1, <2>3, <2>5 DEF TypeOK
    <2> QED BY <2>2, <2>4, <2>6, <2>7 DEF TypeOK
  <1>2. HasOutcome'
    BY DEF TypeOK, HasOutcome
  <1>3. Posted'
    BY DEF TypeOK, Posted
  <1>4. HappyPath'
    BY DEF TypeOK, HappyPath, panicked
  <1>5. ClonesInMap'
    <2>1. /\ pc[i] = "release"
          /\ pc' = [pc EXCEPT ![i] = IF panicked(i) THEN "unlock" ELSE "finish"]
          /\ UNCHANGED <<next_id, tasks, outcome, arc, resource_locks, queue>>
      OBVIOUS
    <2> HIDE DEF release_permit
    <2> QED BY <2>1 DEF TypeOK, ClonesInMap, HasClone, panicked, key
  <1>6. LockHolders'
    <2>1. /\ pc[i] = "release"
          /\ pc' = [pc EXCEPT ![i] = IF panicked(i) THEN "unlock" ELSE "finish"]
          /\ UNCHANGED <<next_id, tasks, outcome, arc, resource_locks, queue>>
      OBVIOUS
    <2> HIDE DEF release_permit
    <2> QED BY <2>1 DEF TypeOK, LockHolders, HasLock, holder, panicked
  <1>7. Channels'
    BY DEF TypeOK, Channels
  <1> QED BY <1>1, <1>2, <1>3, <1>4, <1>5, <1>6, <1>7

(* persist_task_finish keeps the invariant. *)
LEMMA step_persist_task_finish ==
    ASSUME IInv, NEW i \in TaskId, persist_task_finish(i)
    PROVE  IInv'
  <1> USE NoneAssumption, BoundsAssumption
          DEF persist_task_finish, IInv, future, locks, ledger, slots, goto
  <1>1. TypeOK'
    BY DEF TypeOK, Locations, HasOutcome, Posted
  <1>2. HasOutcome'
    BY DEF TypeOK, HasOutcome
  <1>3. Posted'
    BY DEF TypeOK, Posted
  <1>4. HappyPath'
    BY DEF TypeOK, HappyPath, panicked
  <1>5. ClonesInMap'
    BY DEF TypeOK, ClonesInMap, HasClone, HappyPath, Posted, panicked, key
  <1>6. LockHolders'
    BY ZenonT(60)
       DEF TypeOK, LockHolders, HasLock, HasClone, ClonesInMap, holder, panicked, HappyPath
  <1>7. Channels'
    BY DEF TypeOK, Channels
  <1> QED BY <1>1, <1>2, <1>3, <1>4, <1>5, <1>6, <1>7

(* send_outcome keeps the invariant. *)
LEMMA step_send_outcome ==
    ASSUME IInv, NEW i \in TaskId, send_outcome(i)
    PROVE  IInv'
  <1> USE NoneAssumption, BoundsAssumption
          DEF send_outcome, IInv, future, locks, ledger, slots, goto
  <1>1. TypeOK'
    BY DEF TypeOK, Locations, HasOutcome, Posted
  <1>2. HasOutcome'
    BY DEF TypeOK, HasOutcome
  <1>3. Posted'
    BY DEF TypeOK, Posted
  <1>4. HappyPath'
    BY DEF TypeOK, HappyPath, panicked
  <1>5. ClonesInMap'
    BY ZenonT(60)
       DEF TypeOK, ClonesInMap, HasClone, HappyPath, Posted, panicked, key
  <1>6. LockHolders'
    BY ZenonT(60)
       DEF TypeOK, LockHolders, HasLock, HasClone, ClonesInMap, holder, panicked, HappyPath
  <1>7. Channels'
    BY DEF TypeOK, Channels, HasOutcome
  <1> QED BY <1>1, <1>2, <1>3, <1>4, <1>5, <1>6, <1>7

(* drop_progress_guard keeps the invariant. *)
LEMMA step_drop_progress_guard ==
    ASSUME IInv, NEW i \in TaskId, drop_progress_guard(i)
    PROVE  IInv'
  <1> USE NoneAssumption, BoundsAssumption
          DEF drop_progress_guard, IInv, future, locks, ledger, slots, goto
  <1>1. TypeOK'
    <2>1. progress' \in [TaskId -> ProgressEntry]
      BY EntryType DEF TypeOK
    <2> QED BY <2>1 DEF TypeOK, Locations
  <1>2. HasOutcome'
    BY DEF TypeOK, HasOutcome
  <1>3. Posted'
    BY DEF TypeOK, Posted
  <1>4. HappyPath'
    BY DEF TypeOK, HappyPath, panicked
  <1>5. ClonesInMap'
    BY ZenonT(60)
       DEF TypeOK, ClonesInMap, HasClone, HappyPath, Posted, panicked, key
  <1>6. LockHolders'
    BY ZenonT(60)
       DEF TypeOK, LockHolders, HasLock, HasClone, ClonesInMap, holder, panicked, HappyPath
  <1>7. Channels'
    BY DEF TypeOK, Channels
  <1> QED BY <1>1, <1>2, <1>3, <1>4, <1>5, <1>6, <1>7

(* drop_prune_guard keeps the invariant. *)
LEMMA step_drop_prune_guard ==
    ASSUME IInv, NEW i \in TaskId, drop_prune_guard(i)
    PROVE  IInv'
  <1> USE NoneAssumption, BoundsAssumption
          DEF drop_prune_guard, IInv, future, locks, ledger, slots, goto
  <1>1. TypeOK'
    BY DEF TypeOK, Locations, HasOutcome, Posted
  <1>2. HasOutcome'
    BY DEF TypeOK, HasOutcome
  <1>3. Posted'
    BY DEF TypeOK, Posted
  <1>4. HappyPath'
    BY DEF TypeOK, HappyPath, panicked
  <1>5. ClonesInMap'
    BY ZenonT(60)
       DEF TypeOK, ClonesInMap, HasClone, HappyPath, Posted, panicked, key
  <1>6. LockHolders'
    BY ZenonT(60)
       DEF TypeOK, LockHolders, HasLock, HasClone, ClonesInMap, holder, panicked, HappyPath
  <1>7. Channels'
    BY DEF TypeOK, Channels
  <1> QED BY <1>1, <1>2, <1>3, <1>4, <1>5, <1>6, <1>7

(* drop_sender keeps the invariant. *)
LEMMA step_drop_sender ==
    ASSUME IInv, NEW i \in TaskId, drop_sender(i)
    PROVE  IInv'
  <1> USE NoneAssumption, BoundsAssumption
          DEF drop_sender, IInv, future, locks, ledger, slots, goto
  <1>1. TypeOK'
    BY DEF TypeOK, Locations, HasOutcome, Posted
  <1>2. HasOutcome'
    BY DEF TypeOK, HasOutcome
  <1>3. Posted'
    BY DEF TypeOK, Posted
  <1>4. HappyPath'
    BY DEF TypeOK, HappyPath, panicked
  <1>5. ClonesInMap'
    BY ZenonT(60)
       DEF TypeOK, ClonesInMap, HasClone, HappyPath, Posted, panicked, key
  <1>6. LockHolders'
    BY ZenonT(60)
       DEF TypeOK, LockHolders, HasLock, HasClone, ClonesInMap, holder, panicked, HappyPath
  <1>7. Channels'
    BY DEF TypeOK, Channels
  <1> QED BY <1>1, <1>2, <1>3, <1>4, <1>5, <1>6, <1>7

-----------------------------------------------------------------------------
(* Callers and pollers touch neither the locks nor the futures, so only    *)
(* the types and the channels are at stake.                                *)
LEMMA bystander_step ==
    ASSUME IInv, TypeOK', Channels', UNCHANGED <<future, locks>>
    PROVE  IInv'
  <1>1. UNCHANGED <<next_id, tasks, pc, posts, outcome, arc, resource_locks,
                    queue, permits, waiting>>
    BY DEF future, locks
  <1>2. HasOutcome' /\ Posted' /\ HappyPath'
    BY <1>1 DEF IInv, HasOutcome, Posted, HappyPath, panicked
  <1>3. ClonesInMap' /\ LockHolders'
    BY <1>1 DEF IInv, ClonesInMap, HasClone, LockHolders, HasLock, holder,
                panicked, key
  <1> QED BY <1>2, <1>3 DEF IInv

(* Recording an owner keeps the invariant. *)
LEMMA step_set_task_owner ==
    ASSUME IInv, NEW i \in TaskId, NEW u \in Users, set_task_owner(i, u)
    PROVE  IInv'
  <1>1. /\ progress' = [progress EXCEPT ![i] = [progress[i] EXCEPT !.owner = u]]
        /\ UNCHANGED <<future, locks, completion_timings, rows, slots>>
    BY DEF set_task_owner
  <1>2. [progress[i] EXCEPT !.owner = u] \in ProgressEntry
    <2>1. progress[i] \in ProgressEntry
      BY DEF IInv, TypeOK
    <2> QED BY <2>1 DEF ProgressEntry
  <1>3. progress' \in [TaskId -> ProgressEntry]
    BY <1>1, <1>2 DEF IInv, TypeOK
  <1>4. TypeOK' /\ Channels'
    BY <1>1, <1>3 DEF IInv, TypeOK, Channels, future, locks, slots
  <1> QED BY <1>1, <1>4, bystander_step

(* An entry of the progress map reads as an outcome. *)
LEMMA RetainedType ==
    \A e \in ProgressEntry : retained_outcome(e) \in TaskOutcome
  <1> SUFFICES ASSUME NEW e \in ProgressEntry
               PROVE  retained_outcome(e) \in TaskOutcome
    OBVIOUS
  <1>1. e.message \in Messages
    BY DEF ProgressEntry
  <1>2. Err(e.message) \in TaskOutcome /\ Err("unknown task id") \in TaskOutcome
    BY <1>1 DEF Err, TaskOutcome, Messages
  <1>3. /\ Ok("plain") \in TaskOutcome /\ Ok("GhostFiles") \in TaskOutcome
        /\ Ok("BakeErrors") \in TaskOutcome
    BY DEF Ok, TaskOutcome
  <1> QED BY <1>2, <1>3 DEF retained_outcome

(* A call of await_completion. *)
Call == [at : {"idle", "waiting", "answered", "timed out"},
         id : TaskId \cup {None},
         result : TaskOutcome \cup {None}]

(* An answer is a call that does not wait. *)
LEMMA answer_step ==
    ASSUME IInv, NEW c \in Callers, NEW i \in TaskId, NEW o \in TaskOutcome,
           answer(c, i, o), UNCHANGED <<future, locks, ledger, completions, tx, taken>>
    PROVE  IInv'
  <1> DEFINE r == [at |-> "answered", id |-> i, result |-> o]
  <1>1. r \in Call /\ r.at = "answered"
    BY DEF Call
  <1>2. caller' = [caller EXCEPT ![c] = r]
    BY DEF answer
  <1> HIDE DEF r
  <1>3. caller \in [Callers -> Call]
    BY DEF IInv, TypeOK, Call
  <1>4. caller' \in [Callers -> Call]
    BY <1>1, <1>2, <1>3
  <1>5. TypeOK'
    BY <1>4 DEF IInv, TypeOK, Call, future, locks, ledger
  <1>6. Channels'
    BY <1>1, <1>2, <1>3 DEF IInv, Channels, future
  <1> QED BY <1>5, <1>6, bystander_step

(* Taking a receiver, or answering without one, keeps the invariant. *)
LEMMA step_await_completion ==
    ASSUME IInv, NEW c \in Callers, NEW i \in TaskId, await_completion(c, i)
    PROVE  IInv'
  <1>1. UNCHANGED <<future, locks, ledger, tx>>
    BY DEF await_completion
  <1>2. CASE /\ answer(c, i, retained_outcome(progress[i]))
             /\ UNCHANGED <<completions, taken>>
    <2>1. retained_outcome(progress[i]) \in TaskOutcome
      BY RetainedType DEF IInv, TypeOK
    <2> QED BY <1>1, <1>2, <2>1, answer_step
  <1>3. CASE /\ completions' = completions \ {i}
             /\ taken' = taken \cup {i}
             /\ caller' = [caller EXCEPT ![c].at = "waiting", ![c].id = i]
    <2> DEFINE r == [caller[c] EXCEPT !.at = "waiting", !.id = i]
    <2>1. caller \in [Callers -> Call]
      BY DEF IInv, TypeOK, Call
    <2>2. r \in Call /\ r.id = i
      BY <2>1 DEF Call
    <2>3. caller' = [caller EXCEPT ![c] = r]
      BY <1>3, <2>1
    <2> HIDE DEF r
    <2>4. caller' \in [Callers -> Call]
      BY <2>1, <2>2, <2>3
    <2>5. TypeOK'
      BY <1>1, <1>3, <2>4 DEF IInv, TypeOK, Call, future, locks, ledger
    <2>6. Channels'
      BY <1>1, <2>1, <2>2, <2>3 DEF IInv, Channels, future
    <2> QED BY <1>1, <2>5, <2>6, bystander_step
  <1> QED BY <1>2, <1>3 DEF await_completion

(* An answer from the channel keeps the invariant. *)
LEMMA step_observe ==
    ASSUME IInv, NEW c \in Callers, observe(c)
    PROVE  IInv'
  <1>1. /\ caller[c].at = "waiting"
        /\ UNCHANGED <<future, locks, ledger, completions, tx, taken>>
        /\ \/ tx[caller[c].id] = "sent"
              /\ answer(c, caller[c].id, outcome[caller[c].id])
           \/ answer(c, caller[c].id, Err("dropped"))
    BY DEF observe
  <1>2. caller[c].id \in TaskId
    BY <1>1 DEF IInv, Channels
  <1>3. Err("dropped") \in TaskOutcome
    BY DEF Err, TaskOutcome, Messages
  <1>4. tx[caller[c].id] = "sent" => outcome[caller[c].id] \in TaskOutcome
    BY <1>2 DEF IInv, Channels
  <1> QED BY <1>1, <1>2, <1>3, <1>4, answer_step

(* Giving up a call keeps the invariant. *)
LEMMA step_time_out ==
    ASSUME IInv, NEW c \in Callers, time_out(c)
    PROVE  IInv'
  <1> DEFINE r == [caller[c] EXCEPT !.at = "timed out"]
  <1>1. caller \in [Callers -> Call]
    BY DEF IInv, TypeOK, Call
  <1>2. r \in Call /\ r.at = "timed out"
    BY <1>1 DEF Call
  <1>3. /\ caller' = [caller EXCEPT ![c] = r]
        /\ UNCHANGED <<future, locks, ledger, completions, tx, taken>>
    BY <1>1 DEF time_out
  <1> HIDE DEF r
  <1>4. caller' \in [Callers -> Call]
    BY <1>1, <1>2, <1>3
  <1>5. TypeOK'
    BY <1>3, <1>4 DEF IInv, TypeOK, Call, future, locks, ledger
  <1>6. Channels'
    BY <1>1, <1>2, <1>3 DEF IInv, Channels, future
  <1> QED BY <1>3, <1>5, <1>6, bystander_step

(* Evicting terminal entries keeps the invariant. *)
LEMMA step_snapshot ==
    ASSUME IInv, NEW p \in Pollers, snapshot(p)
    PROVE  IInv'
  <1>1. PICK expired :
           progress' = [i \in TaskId |->
                           IF i \in expired THEN Absent ELSE progress[i]]
    BY DEF snapshot
  <1>2. UNCHANGED <<future, locks, completion_timings, rows, slots>>
    BY DEF snapshot
  <1>3. progress' \in [TaskId -> ProgressEntry]
    BY <1>1, EntryType DEF IInv, TypeOK
  <1>4. TypeOK' /\ Channels'
    BY <1>2, <1>3 DEF IInv, TypeOK, Channels, future, locks, slots
  <1> QED BY <1>2, <1>4, bystander_step

(* A post from outside keeps the invariant. *)
LEMMA step_PostRoot ==
    ASSUME IInv, PostRoot
    PROVE  IInv'
  <1>1. PICK t \in Roots : post(t)
    BY DEF PostRoot
  <1>2. t \in Task
    BY TaskAssumption
  <1>3. posts' \in [TaskId -> Nat]
    BY DEF PostRoot, IInv, TypeOK
  <1>4. UNCHANGED <<outcome, locks, completion_timings, rows, tx, caller, taken>>
    BY DEF PostRoot
  <1> QED BY <1>1, <1>2, <1>3, <1>4, post_step

(* Doing nothing keeps the invariant. *)
LEMMA step_stutter ==
    ASSUME IInv, UNCHANGED vars
    PROVE  IInv'
  <1>1. UNCHANGED <<future, locks, ledger, slots>>
    BY DEF vars
  <1>2. TypeOK' /\ Channels'
    BY <1>1 DEF IInv, TypeOK, Channels, future, locks, ledger, slots
  <1> QED BY <1>1, <1>2, bystander_step

(* The invariant holds in every reachable state of the worker. *)
THEOREM Invariance == Spec => []IInv
  <1>1. Init => IInv
    <2> SUFFICES ASSUME Init PROVE IInv
      OBVIOUS
    <2>1. TypeOK
      <3>1. Absent \in ProgressEntry
        BY EntryType
      <3>2. 1 \in 1 .. MaxTasks + 1
        BY BoundsAssumption
      <3> QED BY <3>1, <3>2 DEF Init, TypeOK, Locations
    <2>2. HasOutcome /\ Posted /\ HappyPath
      BY DEF Init, HasOutcome, Posted, HappyPath
    <2>3. ClonesInMap /\ LockHolders
      BY DEF Init, ClonesInMap, LockHolders, HasClone, HasLock
    <2>4. Channels
      BY DEF Init, Channels
    <2> QED BY <2>1, <2>2, <2>3, <2>4 DEF IInv
  <1>2. IInv /\ [Next]_vars => IInv'
    <2> SUFFICES ASSUME IInv, [Next]_vars PROVE IInv'
      OBVIOUS
    <2>1. ASSUME NEW i \in TaskId, FutureStep(i) PROVE IInv'
      BY <2>1, step_persist_task_start, step_clone_resource_lock,
         step_lock_owned, step_acquire_permit, step_permit_granted,
         step_execute, step_panic, step_post_follow_up,
         step_write_terminal_progress, step_record_completion, step_unlock,
         step_drop_arc, step_prune_resource_lock, step_release_permit,
         step_persist_task_finish, step_send_outcome,
         step_drop_progress_guard, step_drop_prune_guard, step_drop_sender
         DEF FutureStep
    <2>2. ASSUME Quiescent PROVE IInv'
      BY <2>2, step_stutter DEF Quiescent
    <2> QED
      BY <2>1, <2>2, step_PostRoot, step_report_progress_update,
         step_set_task_owner, step_await_completion, step_observe,
         step_time_out, step_snapshot, step_stutter
         DEF Next
  <1> QED BY <1>1, <1>2, PTL DEF Spec

(* The worker's state always has its type. *)
THEOREM TypeCorrectness == Spec => []TypeOK
  <1>1. IInv => TypeOK
    BY DEF IInv
  <1> QED BY <1>1, Invariance, PTL

(* The invariant implies that same-key handlers exclude each other: both   *)
(* are at the head of the queue of the one mutex the map has for the key.  *)
LEMMA IInvExcludes == IInv => MutualExclusion
  <1> SUFFICES ASSUME IInv, NEW i \in TaskId, NEW j \in TaskId,
                      pc[i] \in {"running", "posting"},
                      pc[j] \in {"running", "posting"},
                      key(i) = key(j)
               PROVE  i = j
    BY DEF MutualExclusion
  <1>1. holder(i) /\ holder(j)
    BY DEF IInv, LockHolders, HasLock
  <1>2. arc[i] \in TaskId /\ arc[j] \in TaskId
    BY DEF IInv, ClonesInMap, HasClone
  <1>3. arc[i] = resource_locks[key(i)] /\ arc[j] = resource_locks[key(j)]
    BY <1>2, NoneAssumption DEF IInv, ClonesInMap
  <1> QED BY <1>1, <1>3 DEF holder

(* Handlers of tasks with one resource key never overlap, however often    *)
(* the key's mutex is pruned and created anew (queue.rs                    *)
(* prune_resource_lock, exec.rs run).                                      *)
THEOREM HandlersExclude == Spec => []MutualExclusion
  BY Invariance, IInvExcludes, PTL

-----------------------------------------------------------------------------
(* What is left of a task, and what its callers are told.                  *)

(* The places of a future before its handler ends. *)
Starting == {"start", "entry", "lock", "queued", "permit", "running"}

(* A task has no outcome before its handler ends. *)
NotEnded ==
    \A i \in TaskId :
        pc[i] \in Starting \cup {"unposted"} => outcome[i] = None

(* The places of a future that has its permit. *)
HasPermit(i) ==
    \/ pc[i] \in {"running", "posting", "record", "prune", "release"}
    \/ pc[i] \in {"unlock", "drop_arc"} /\ ~panicked(i)

(* The permits out are those of tasks that have or are handed one, those   *)
(* waiting were not handed one, and no semaphore gives more than it has.   *)
PermitsHeld ==
    \A s \in Semaphores : \A i \in permits[s] :
        semaphore_of(tasks[i]) = s /\ (pc[i] = "permit" \/ HasPermit(i))

PermitsWaited ==
    \A s \in Semaphores :
        /\ \A n \in 1 .. Len(waiting[s]) :
              /\ semaphore_of(tasks[waiting[s][n]]) = s
              /\ pc[waiting[s][n]] = "permit" /\ waiting[s][n] \notin permits[s]
        /\ \A m, n \in 1 .. Len(waiting[s]) :
              waiting[s][m] = waiting[s][n] => m = n

PermitsTaken ==
    \A i \in TaskId : HasPermit(i) /\ semaphore_of(tasks[i]) # None =>
        i \in permits[semaphore_of(tasks[i])]

PermitsBounded ==
    \A s \in Semaphores : Cardinality(permits[s]) <= Capacity[s]

Permits == PermitsHeld /\ PermitsWaited /\ PermitsTaken /\ PermitsBounded

(* The queue of a mutex has the tasks that hold or wait for it, once each. *)
Queues ==
    \A m \in TaskId :
        /\ \A n \in 1 .. Len(queue[m]) :
              /\ arc[queue[m][n]] = m
              /\ pc[queue[m][n]] = "queued" \/ HasLock(queue[m][n])
        /\ \A k, n \in 1 .. Len(queue[m]) : queue[m][k] = queue[m][n] => k = n

(* A task that will reclaim the map entry of k, or failed to. *)
reclaims(i, k) ==
    tasks[i] # None /\ key(i) = k /\ (pc[i] = "prune" \/ panicked(i))

(* A mutex in the map was created for its key, and is still referred to,   *)
(* or about to be reclaimed, or was left by a panic.                       *)
Mutexes ==
    \A k \in Keys : resource_locks[k] # None =>
        /\ pc[resource_locks[k]] # "unposted" /\ key(resource_locks[k]) = k
        /\ \/ \E i \in TaskId : arc[i] = resource_locks[k]
           \/ \E i \in TaskId : reclaims(i, k)

(* What the locks and the futures say of each other. *)
Tidy == NotEnded /\ Permits /\ Queues /\ Mutexes

(* A posted task is a task, of the semaphore it was posted with. *)
LEMMA TaskThere ==
    ASSUME IInv, NEW i \in TaskId, pc[i] # "unposted"
    PROVE  /\ tasks[i] \in Task /\ tasks[i] # None /\ key(i) \in Keys
           /\ i # next_id
  <1>1. tasks[i] \in Task
    BY DEF IInv, Posted
  <1>2. key(i) \in Keys
    BY <1>1, KeyType DEF key
  <1>3. i # next_id
    <2>1. i \in Nat /\ i >= i
      BY BoundsAssumption DEF TaskId
    <2> QED BY <2>1 DEF IInv, Posted
  <1> QED BY <1>1, <1>2, <1>3, NoneAssumption

(* Permits are of finitely many tasks. *)
LEMMA PermitsFinite ==
    ASSUME TypeOK, NEW s \in Semaphores
    PROVE  /\ permits[s] \subseteq TaskId /\ IsFiniteSet(permits[s])
           /\ Cardinality(permits[s]) \in Nat
           /\ Capacity[s] \in Nat
  <1>1. IsFiniteSet(TaskId)
    BY BoundsAssumption, FS_Interval DEF TaskId
  <1>2. permits[s] \subseteq TaskId
    BY DEF TypeOK
  <1>3. IsFiniteSet(permits[s])
    BY <1>1, <1>2, FS_Subset
  <1> QED BY <1>2, <1>3, FS_CardinalityType, CapacityAssumption

(* A post gives nobody an outcome, a lock, a permit or a mutex. *)
LEMMA post_tidy ==
    ASSUME IInv, Tidy, NEW t \in Task, post(t), UNCHANGED <<outcome, locks>>
    PROVE  Tidy'
  <1>1. /\ next_id \in TaskId
        /\ pc' = [pc EXCEPT ![next_id] = "start"]
        /\ tasks' = [tasks EXCEPT ![next_id] = t]
        /\ UNCHANGED <<outcome, arc, resource_locks, queue, permits, waiting>>
    BY DEF post, goto, locks
  <1>2. pc[next_id] = "unposted"
    BY <1>1, BoundsAssumption DEF IInv, Posted, TaskId
  <1>3. outcome[next_id] = None /\ ~panicked(next_id)
    <2>1. outcome[next_id] = None
      BY <1>1, <1>2 DEF Tidy, NotEnded
    <2> QED BY <2>1, OutcomeAssumption, OutcomeType DEF panicked
  <1>4. ASSUME NEW j \in TaskId, j # next_id
        PROVE  /\ pc'[j] = pc[j] /\ tasks'[j] = tasks[j] /\ key(j)' = key(j)
               /\ HasPermit(j)' = HasPermit(j) /\ HasLock(j)' = HasLock(j)
               /\ panicked(j)' = panicked(j)
    BY <1>1, <1>4 DEF IInv, TypeOK, key, HasPermit, HasLock, panicked
  <1>5. /\ \A j \in TaskId : j = next_id => ~HasPermit(j)'
        /\ ~HasPermit(next_id) /\ ~HasLock(next_id)
    <2>1. \A j \in TaskId : j = next_id => pc'[j] = "start"
      BY <1>1 DEF IInv, TypeOK
    <2> QED BY <1>2, <2>1 DEF HasPermit, HasLock
  <1>6. NotEnded'
    BY <1>1, <1>3, <1>4 DEF Tidy, NotEnded
  <1>7. Permits'
    <2>1. PermitsHeld'
      <3> SUFFICES ASSUME NEW s \in Semaphores, NEW i \in permits[s]
                   PROVE  (/\ semaphore_of(tasks[i]) = s
                           /\ pc[i] = "permit" \/ HasPermit(i))'
        BY <1>1 DEF PermitsHeld
      <3>1. /\ i \in TaskId /\ semaphore_of(tasks[i]) = s
            /\ pc[i] = "permit" \/ HasPermit(i)
        BY PermitsFinite DEF IInv, Tidy, Permits, PermitsHeld
      <3>2. i # next_id
        BY <1>2, <1>5, <3>1
      <3> QED BY <1>4, <3>1, <3>2
    <2>2. PermitsWaited'
      <3> SUFFICES ASSUME NEW s \in Semaphores
                   PROVE  (/\ \A n \in 1 .. Len(waiting[s]) :
                                /\ semaphore_of(tasks[waiting[s][n]]) = s
                                /\ pc[waiting[s][n]] = "permit"
                                /\ waiting[s][n] \notin permits[s]
                           /\ \A m, n \in 1 .. Len(waiting[s]) :
                                waiting[s][m] = waiting[s][n] => m = n)'
        BY DEF PermitsWaited
      <3>1. ASSUME NEW n \in 1 .. Len(waiting[s])
            PROVE  /\ waiting[s][n] \in TaskId /\ waiting[s][n] # next_id
                   /\ semaphore_of(tasks[waiting[s][n]]) = s
                   /\ pc[waiting[s][n]] = "permit"
                   /\ waiting[s][n] \notin permits[s]
        <4>1. waiting[s] \in Seq(TaskId)
          BY DEF IInv, TypeOK
        <4> QED BY <1>2, <4>1 DEF Tidy, Permits, PermitsWaited
      <3> QED BY <1>1, <1>4, <3>1 DEF Tidy, Permits, PermitsWaited
    <2>3. PermitsTaken'
      <3> SUFFICES ASSUME NEW i \in TaskId, HasPermit(i)',
                          semaphore_of(tasks'[i]) # None
                   PROVE  i \in permits'[semaphore_of(tasks'[i])]
        BY DEF PermitsTaken
      <3>1. i # next_id
        BY <1>5
      <3>2. HasPermit(i) /\ tasks'[i] = tasks[i]
        BY <1>4, <3>1
      <3> QED BY <1>1, <3>2 DEF Tidy, Permits, PermitsTaken
    <2>4. PermitsBounded'
      BY <1>1 DEF Tidy, Permits, PermitsBounded
    <2> QED BY <2>1, <2>2, <2>3, <2>4 DEF Permits
  <1>8. Queues'
    <2>1. ASSUME NEW m \in TaskId, NEW n \in 1 .. Len(queue[m])
          PROVE  /\ arc[queue[m][n]] = m
                 /\ (pc[queue[m][n]] = "queued" \/ HasLock(queue[m][n]))'
      <3>1. queue[m][n] \in TaskId
        <4>1. queue[m] \in Seq(TaskId)
          BY DEF IInv, TypeOK
        <4> QED BY <4>1
      <3>2. arc[queue[m][n]] = m
            /\ (pc[queue[m][n]] = "queued" \/ HasLock(queue[m][n]))
        BY DEF Tidy, Queues
      <3>3. queue[m][n] # next_id
        BY <1>2, <1>5, <3>2
      <3>4. PICK j \in TaskId : j = queue[m][n]
        BY <3>1
      <3>5. (pc[j] = "queued" \/ HasLock(j))'
        BY <1>4, <3>2, <3>3, <3>4
      <3> QED BY <1>1, <3>2, <3>4, <3>5 DEF HasLock, panicked
    <2> QED BY <1>1, <2>1 DEF Tidy, Queues
  <1>9. Mutexes'
    <2> SUFFICES ASSUME NEW k \in Keys, resource_locks[k] # None
                 PROVE  (/\ pc[resource_locks[k]] # "unposted"
                         /\ key(resource_locks[k]) = k
                         /\ \/ \E i \in TaskId : arc[i] = resource_locks[k]
                            \/ \E i \in TaskId : reclaims(i, k))'
      BY <1>1 DEF Mutexes
    <2>1. PICK m \in TaskId : m = resource_locks[k]
      BY DEF IInv, TypeOK
    <2>2. /\ pc[m] # "unposted" /\ key(m) = k
          /\ \/ \E i \in TaskId : arc[i] = resource_locks[k]
             \/ \E i \in TaskId : reclaims(i, k)
      BY <2>1 DEF Tidy, Mutexes
    <2>3. (pc[m] # "unposted" /\ key(m) = k)'
      BY <1>2, <1>4, <2>2
    <2>4. ASSUME NEW i \in TaskId, reclaims(i, k)
          PROVE  reclaims(i, k)'
      <3>1. i # next_id
        BY <1>2, <1>3, <2>4 DEF reclaims
      <3> QED BY <1>4, <2>4, <3>1 DEF reclaims
    <2>5. m = resource_locks'[k] /\ arc' = arc
      BY <1>1, <2>1
    <2>6. (pc[resource_locks[k]] # "unposted" /\ key(resource_locks[k]) = k)'
      BY <2>3, <2>5 DEF key
    <2> QED BY <2>1, <2>2, <2>4, <2>5, <2>6
  <1> QED BY <1>6, <1>7, <1>8, <1>9 DEF Tidy

-----------------------------------------------------------------------------
(* What a step of one future leaves alone.                                 *)

(* No future but that of i moves, ends or touches its clone. *)
Only(i) ==
    /\ tasks' = tasks
    /\ \A j \in TaskId : j # i =>
          pc'[j] = pc[j] /\ outcome'[j] = outcome[j] /\ arc'[j] = arc[j]

(* What is said of the other futures stays so. *)
LEMMA OnlyOthers ==
    ASSUME NEW i \in TaskId, Only(i), NEW j \in TaskId, j # i
    PROVE  /\ HasPermit(j)' <=> HasPermit(j)
           /\ HasLock(j)' <=> HasLock(j)
           /\ panicked(j)' <=> panicked(j)
           /\ pc'[j] = pc[j] /\ arc'[j] = arc[j] /\ key(j)' = key(j)
  BY DEF Only, HasPermit, HasLock, panicked, key

(* Only the end of a handler gives a task an outcome. *)
LEMMA NotEndedKept ==
    ASSUME Tidy, NEW i \in TaskId, Only(i),
           pc'[i] \in Starting \cup {"unposted"} => outcome'[i] = None
    PROVE  NotEnded'
  BY DEF Tidy, NotEnded, Only

(* The permits stay in order while i neither asks for one nor gives one    *)
(* back.                                                                   *)
LEMMA PermitsKept ==
    ASSUME IInv, Tidy, NEW i \in TaskId, Only(i), UNCHANGED <<permits, waiting>>,
           HasPermit(i)' <=> HasPermit(i), pc'[i] = "permit" <=> pc[i] = "permit"
    PROVE  Permits'
  <1>1. tasks' = tasks
    BY DEF Only
  <1>2. ASSUME NEW j \in TaskId
        PROVE  /\ HasPermit(j)' <=> HasPermit(j)
               /\ pc'[j] = "permit" <=> pc[j] = "permit"
    BY OnlyOthers
  <1>3. PermitsHeld'
    <2> SUFFICES ASSUME NEW s \in Semaphores, NEW j \in permits[s]
                 PROVE  (/\ semaphore_of(tasks[j]) = s
                         /\ pc[j] = "permit" \/ HasPermit(j))'
      BY DEF PermitsHeld
    <2>1. /\ j \in TaskId /\ semaphore_of(tasks[j]) = s
          /\ pc[j] = "permit" \/ HasPermit(j)
      BY PermitsFinite DEF IInv, Tidy, Permits, PermitsHeld
    <2> QED BY <1>1, <1>2, <2>1
  <1>4. PermitsWaited'
    <2> SUFFICES ASSUME NEW s \in Semaphores
                 PROVE  (/\ \A n \in 1 .. Len(waiting[s]) :
                              /\ semaphore_of(tasks[waiting[s][n]]) = s
                              /\ pc[waiting[s][n]] = "permit"
                              /\ waiting[s][n] \notin permits[s]
                         /\ \A m, n \in 1 .. Len(waiting[s]) :
                              waiting[s][m] = waiting[s][n] => m = n)'
      BY DEF PermitsWaited
    <2>1. ASSUME NEW n \in 1 .. Len(waiting[s])
          PROVE  waiting[s][n] \in TaskId
      <3>1. waiting[s] \in Seq(TaskId)
        BY DEF IInv, TypeOK
      <3> QED BY <3>1
    <2> QED BY <1>1, <1>2, <2>1 DEF Tidy, Permits, PermitsWaited
  <1>5. PermitsTaken'
    BY <1>1, <1>2 DEF Tidy, Permits, PermitsTaken
  <1>6. PermitsBounded'
    BY DEF Tidy, Permits, PermitsBounded
  <1> QED BY <1>3, <1>4, <1>5, <1>6 DEF Permits

(* Who is in the queue of a mutex is a task. *)
LEMMA QueueOfTasks ==
    ASSUME TypeOK, NEW m \in TaskId, NEW n \in 1 .. Len(queue[m])
    PROVE  queue[m] \in Seq(TaskId) /\ queue[m][n] \in TaskId
  <1>1. queue[m] \in Seq(TaskId)
    BY DEF TypeOK
  <1> QED BY <1>1

(* The queues stay in order while i neither joins nor leaves one. *)
LEMMA QueuesKept ==
    ASSUME IInv, Tidy, NEW i \in TaskId, Only(i), queue' = queue,
           pc[i] = "queued" \/ HasLock(i) =>
               arc'[i] = arc[i] /\ (pc'[i] = "queued" \/ HasLock(i)')
    PROVE  Queues'
  <1>1. ASSUME NEW m \in TaskId, NEW n \in 1 .. Len(queue[m])
        PROVE  /\ arc'[queue[m][n]] = m
               /\ (pc[queue[m][n]] = "queued" \/ HasLock(queue[m][n]))'
    <2>1. PICK j \in TaskId : j = queue[m][n]
      BY QueueOfTasks DEF IInv
    <2>2. arc[j] = m /\ (pc[j] = "queued" \/ HasLock(j))
      BY <2>1 DEF Tidy, Queues
    <2>3. arc'[j] = m /\ (pc[j] = "queued" \/ HasLock(j))'
      BY <2>2, OnlyOthers
    <2>4. queue'[m][n] = j
      BY <2>1
    <2> QED BY <2>1, <2>3, <2>4 DEF HasLock, panicked
  <1> QED BY <1>1 DEF Tidy, Queues

(* The lock map stays in order while i neither clones nor drops a mutex    *)
(* and does not put off a reclaim.                                         *)
LEMMA MutexesKept ==
    ASSUME IInv, Tidy, NEW i \in TaskId, Only(i), UNCHANGED <<arc, resource_locks>>,
           pc'[i] # "unposted",
           pc[i] = "prune" \/ panicked(i) => pc'[i] = "prune" \/ panicked(i)'
    PROVE  Mutexes'
  <1> SUFFICES ASSUME NEW k \in Keys, resource_locks[k] # None
               PROVE  (/\ pc[resource_locks[k]] # "unposted"
                       /\ key(resource_locks[k]) = k
                       /\ \/ \E j \in TaskId : arc[j] = resource_locks[k]
                          \/ \E j \in TaskId : reclaims(j, k))'
    BY DEF Mutexes
  <1>1. PICK m \in TaskId : m = resource_locks[k]
    BY DEF IInv, TypeOK
  <1>2. /\ pc[m] # "unposted" /\ key(m) = k
        /\ \/ \E j \in TaskId : arc[j] = resource_locks[k]
           \/ \E j \in TaskId : reclaims(j, k)
    BY <1>1 DEF Tidy, Mutexes
  <1>3. (pc[m] # "unposted" /\ key(m) = k)'
    BY <1>2, OnlyOthers DEF Only, key
  <1>4. ASSUME NEW j \in TaskId, reclaims(j, k)
        PROVE  reclaims(j, k)'
    BY <1>4, OnlyOthers DEF reclaims, Only, key
  <1>5. resource_locks'[k] = m /\ arc' = arc
    BY <1>1
  <1>6. (pc[resource_locks[k]] # "unposted" /\ key(resource_locks[k]) = k)'
    BY <1>3, <1>5 DEF key
  <1> QED BY <1>1, <1>2, <1>4, <1>5, <1>6

(* Future i moves within what it has: it neither gets nor gives a lock, a  *)
(* permit, a clone or a place in a queue.                                  *)
Quiet(i) ==
    /\ Only(i)
    /\ UNCHANGED <<arc, resource_locks, queue, permits, waiting>>
    /\ pc'[i] \notin Starting \cup {"unposted"} \/ outcome'[i] = None
    /\ HasPermit(i)' <=> HasPermit(i)
    /\ pc'[i] = "permit" <=> pc[i] = "permit"
    /\ pc[i] = "queued" \/ HasLock(i) => pc'[i] = "queued" \/ HasLock(i)'
    /\ pc'[i] # "unposted"
    /\ pc[i] = "prune" \/ panicked(i) => pc'[i] = "prune" \/ panicked(i)'

(* Such a step keeps all in order. *)
LEMMA quiet_step ==
    ASSUME IInv, Tidy, NEW i \in TaskId, Quiet(i)
    PROVE  Tidy'
  <1>1. NotEnded'
    BY NotEndedKept DEF Quiet
  <1>2. Permits'
    BY PermitsKept DEF Quiet
  <1>3. Queues'
    BY QueuesKept DEF Quiet
  <1>4. Mutexes'
    BY MutexesKept DEF Quiet
  <1> QED BY <1>1, <1>2, <1>3, <1>4 DEF Tidy

(* The steps of a future that touch no lock, map entry or permit. *)
LEMMA quiet_steps ==
    ASSUME IInv, Tidy, NEW i \in TaskId,
           \/ persist_task_start(i) \/ execute(i) \/ panic(i)
           \/ write_terminal_progress(i) \/ record_completion(i)
           \/ persist_task_finish(i) \/ send_outcome(i)
           \/ drop_progress_guard(i) \/ drop_prune_guard(i) \/ drop_sender(i)
    PROVE  Tidy'
  <1>1. /\ pc[i] \in Starting => outcome[i] = None /\ ~panicked(i)
        /\ pc[i] \in {"posting", "record", "prune"} => ~panicked(i)
        /\ pc \in [TaskId -> Locations] /\ outcome \in [TaskId -> TaskOutcome \cup {None}]
    <2>1. pc[i] \in Starting => outcome[i] = None
      BY DEF Tidy, NotEnded
    <2> QED BY <2>1, OutcomeAssumption, OutcomeType
            DEF IInv, TypeOK, HappyPath, panicked
  <1>2. CASE execute(i)
    <2>1. PICK o \in handler_outcomes(tasks[i]) : outcome' = [outcome EXCEPT ![i] = o]
      BY <1>2 DEF execute
    <2>2. /\ pc[i] = "running" /\ pc' = [pc EXCEPT ![i] = "posting"]
          /\ UNCHANGED <<tasks, arc, resource_locks, queue, permits, waiting>>
      BY <1>2 DEF execute, goto, locks
    <2>3. Quiet(i)
      BY <1>1, <2>1, <2>2 DEF Quiet, Only, HasPermit, HasLock, Starting
    <2> QED BY <2>3, quiet_step
  <1>3. CASE panic(i)
    <2>1. Quiet(i)
      BY <1>1, <1>3
         DEF panic, goto, locks, Quiet, Only, HasPermit, HasLock, Starting, panicked
    <2> QED BY <2>1, quiet_step
  <1>4. CASE \/ persist_task_start(i)
             \/ write_terminal_progress(i) \/ record_completion(i)
             \/ persist_task_finish(i) \/ send_outcome(i)
             \/ drop_progress_guard(i) \/ drop_prune_guard(i) \/ drop_sender(i)
    <2>1. /\ UNCHANGED <<tasks, outcome>>
          /\ UNCHANGED <<arc, resource_locks, queue, permits, waiting>>
      BY <1>4 DEF persist_task_start, write_terminal_progress, record_completion,
                  persist_task_finish, send_outcome, drop_progress_guard,
                  drop_prune_guard, drop_sender, locks
    <2>2. \/ pc[i] = "start" /\ pc' = [pc EXCEPT ![i] = "entry"]
          \/ pc[i] = "posting" /\ pc' = [pc EXCEPT ![i] = "record"]
          \/ pc[i] = "record" /\ pc' = [pc EXCEPT ![i] = "unlock"]
          \/ /\ pc[i] \in {"finish", "send", "guard", "slot", "close"}
             /\ \E l \in {"send", "guard", "slot", "close", "done"} :
                   pc' = [pc EXCEPT ![i] = l]
      BY <1>4 DEF persist_task_start, write_terminal_progress, record_completion,
                  persist_task_finish, send_outcome, drop_progress_guard,
                  drop_prune_guard, drop_sender, goto
    <2>3. Quiet(i)
      BY <1>1, <2>1, <2>2 DEF Quiet, Only, HasPermit, HasLock, Starting, panicked
    <2> QED BY <2>3, quiet_step
  <1> QED BY <1>2, <1>3, <1>4

(* A task that waits for no permit may do as it likes.                     *)
LEMMA PermitsOfOthers ==
    ASSUME IInv, Tidy, NEW i \in TaskId, Only(i), UNCHANGED <<permits, waiting>>,
           semaphore_of(tasks[i]) = None
    PROVE  Permits'
  <1>1. tasks' = tasks /\ None \notin Semaphores
    BY NoneAssumption DEF Only
  <1>2. PermitsHeld'
    <2> SUFFICES ASSUME NEW s \in Semaphores, NEW j \in permits[s]
                 PROVE  (/\ semaphore_of(tasks[j]) = s
                         /\ pc[j] = "permit" \/ HasPermit(j))'
      BY DEF PermitsHeld
    <2>1. /\ j \in TaskId /\ semaphore_of(tasks[j]) = s
          /\ pc[j] = "permit" \/ HasPermit(j)
      BY PermitsFinite DEF IInv, Tidy, Permits, PermitsHeld
    <2>2. j # i
      BY <1>1, <2>1
    <2> QED BY <1>1, <2>1, <2>2, OnlyOthers
  <1>3. PermitsWaited'
    <2> SUFFICES ASSUME NEW s \in Semaphores
                 PROVE  (/\ \A n \in 1 .. Len(waiting[s]) :
                              /\ semaphore_of(tasks[waiting[s][n]]) = s
                              /\ pc[waiting[s][n]] = "permit"
                              /\ waiting[s][n] \notin permits[s]
                         /\ \A m, n \in 1 .. Len(waiting[s]) :
                              waiting[s][m] = waiting[s][n] => m = n)'
      BY DEF PermitsWaited
    <2>1. ASSUME NEW n \in 1 .. Len(waiting[s])
          PROVE  pc'[waiting[s][n]] = "permit"
      <3>1. waiting[s] \in Seq(TaskId)
        BY DEF IInv, TypeOK
      <3>2. PICK j \in TaskId : j = waiting[s][n]
        BY <3>1
      <3>3. semaphore_of(tasks[j]) = s /\ pc[j] = "permit"
        BY <3>2 DEF Tidy, Permits, PermitsWaited
      <3>4. j # i
        BY <1>1, <3>3
      <3> QED BY <3>2, <3>3, <3>4, OnlyOthers
    <2> QED BY <1>1, <2>1 DEF Tidy, Permits, PermitsWaited
  <1>4. PermitsTaken'
    <2> SUFFICES ASSUME NEW j \in TaskId, HasPermit(j)', semaphore_of(tasks'[j]) # None
                 PROVE  j \in permits'[semaphore_of(tasks'[j])]
      BY DEF PermitsTaken
    <2>1. j # i
      BY <1>1
    <2> QED BY <1>1, <2>1, OnlyOthers DEF Tidy, Permits, PermitsTaken
  <1>5. PermitsBounded'
    BY DEF Tidy, Permits, PermitsBounded
  <1> QED BY <1>2, <1>3, <1>4, <1>5 DEF Permits

(* The semaphore of the task that moves is the only one it can disturb:    *)
(* P is who has its permits afterwards, W who waits for one.               *)
LEMMA PermitsMoved ==
    ASSUME IInv, Tidy, NEW i \in TaskId, Only(i), NEW s \in Semaphores,
           semaphore_of(tasks[i]) = s, NEW P, NEW W,
           permits'[s] = P, waiting'[s] = W,
           \A r \in Semaphores : r # s =>
              permits'[r] = permits[r] /\ waiting'[r] = waiting[r],
           \A j \in P : /\ j \in TaskId /\ semaphore_of(tasks[j]) = s
                        /\ pc'[j] = "permit" \/ HasPermit(j)',
           \A n \in 1 .. Len(W) : /\ semaphore_of(tasks[W[n]]) = s
                                  /\ pc'[W[n]] = "permit" /\ W[n] \notin P,
           \A m, n \in 1 .. Len(W) : W[m] = W[n] => m = n,
           \A j \in TaskId :
              HasPermit(j)' /\ semaphore_of(tasks[j]) = s => j \in P,
           Cardinality(P) <= Capacity[s]
    PROVE  Permits'
  <1>1. tasks' = tasks
    BY DEF Only
  <1>2. PermitsHeld'
    <2> SUFFICES ASSUME NEW r \in Semaphores, NEW j \in permits'[r]
                 PROVE  (/\ semaphore_of(tasks[j]) = r
                         /\ pc[j] = "permit" \/ HasPermit(j))'
      BY DEF PermitsHeld
    <2>1. CASE r = s
      BY <1>1, <2>1
    <2>2. CASE r # s
      <3>1. j \in permits[r]
        BY <2>2
      <3>2. /\ j \in TaskId /\ semaphore_of(tasks[j]) = r
            /\ pc[j] = "permit" \/ HasPermit(j)
        BY <3>1, PermitsFinite DEF IInv, Tidy, Permits, PermitsHeld
      <3> QED BY <1>1, <2>2, <3>2, OnlyOthers
    <2> QED BY <2>1, <2>2
  <1>3. PermitsWaited'
    <2> SUFFICES ASSUME NEW r \in Semaphores
                 PROVE  (/\ \A n \in 1 .. Len(waiting[r]) :
                              /\ semaphore_of(tasks[waiting[r][n]]) = r
                              /\ pc[waiting[r][n]] = "permit"
                              /\ waiting[r][n] \notin permits[r]
                         /\ \A m, n \in 1 .. Len(waiting[r]) :
                              waiting[r][m] = waiting[r][n] => m = n)'
      BY DEF PermitsWaited
    <2>1. CASE r = s
      BY <1>1, <2>1
    <2>2. CASE r # s
      <3>1. ASSUME NEW n \in 1 .. Len(waiting[r])
            PROVE  /\ semaphore_of(tasks[waiting[r][n]]) = r
                   /\ pc'[waiting[r][n]] = "permit"
                   /\ waiting[r][n] \notin permits[r]
        <4>1. waiting[r] \in Seq(TaskId)
          BY DEF IInv, TypeOK
        <4>2. PICK j \in TaskId : j = waiting[r][n]
          BY <4>1
        <4>3. semaphore_of(tasks[j]) = r /\ pc[j] = "permit" /\ j \notin permits[r]
          BY <4>2 DEF Tidy, Permits, PermitsWaited
        <4>4. j # i
          BY <2>2, <4>3
        <4> QED BY <4>2, <4>3, <4>4, OnlyOthers
      <3> QED BY <1>1, <2>2, <3>1 DEF Tidy, Permits, PermitsWaited
    <2> QED BY <2>1, <2>2
  <1>4. PermitsTaken'
    <2> SUFFICES ASSUME NEW j \in TaskId, HasPermit(j)', semaphore_of(tasks'[j]) # None
                 PROVE  j \in permits'[semaphore_of(tasks'[j])]
      BY DEF PermitsTaken
    <2>1. CASE semaphore_of(tasks[j]) = s
      BY <1>1, <2>1
    <2>2. CASE semaphore_of(tasks[j]) # s
      <3>1. PICK r \in Semaphores : r = semaphore_of(tasks[j])
        BY <1>1, SemaphoreType
      <3>2. HasPermit(j)
        BY <2>2, OnlyOthers
      <3> QED BY <1>1, <2>2, <3>1, <3>2 DEF Tidy, Permits, PermitsTaken
    <2> QED BY <2>1, <2>2
  <1>5. PermitsBounded'
    BY DEF Tidy, Permits, PermitsBounded
  <1> QED BY <1>2, <1>3, <1>4, <1>5 DEF Permits

(* A future that clones a mutex, new or old, brings the map no entry that  *)
(* nobody refers to.                                                       *)
LEMMA clone_tidy ==
    ASSUME IInv, Tidy, NEW i \in TaskId, clone_resource_lock(i)
    PROVE  Tidy'
  <1> DEFINE m == IF resource_locks[key(i)] = None THEN i
                  ELSE resource_locks[key(i)]
  <1>1. /\ pc[i] = "entry" /\ pc' = [pc EXCEPT ![i] = "lock"]
        /\ resource_locks' = [resource_locks EXCEPT ![key(i)] = m]
        /\ arc' = [arc EXCEPT ![i] = m]
        /\ UNCHANGED <<tasks, outcome, queue, permits, waiting>>
    BY DEF clone_resource_lock, goto
  <1>2. /\ tasks[i] # None /\ key(i) \in Keys
        /\ outcome[i] = None /\ arc[i] = None
    <2>1. ~HasClone(i)
      BY <1>1 DEF HasClone
    <2> QED BY <1>1, <2>1, TaskThere DEF Tidy, NotEnded, Starting, IInv, ClonesInMap
  <1>3. /\ resource_locks[key(i)] = None => m = i
        /\ resource_locks[key(i)] # None => m = resource_locks[key(i)]
    OBVIOUS
  <1> HIDE DEF m
  <1>4. /\ Only(i) /\ pc'[i] = "lock" /\ arc'[i] = m
        /\ resource_locks'[key(i)] = m
        /\ \A k \in Keys : k # key(i) => resource_locks'[k] = resource_locks[k]
    BY <1>1, <1>2 DEF IInv, TypeOK, Only
  <1>5. ~HasPermit(i)' /\ ~HasPermit(i) /\ ~HasLock(i) /\ pc[i] # "queued"
    BY <1>1, <1>4 DEF HasPermit, HasLock
  <1>6. NotEnded'
    BY <1>1, <1>2, <1>4, NotEndedKept
  <1>7. Permits'
    BY <1>1, <1>4, <1>5, PermitsKept
  <1>8. Queues'
    BY <1>1, <1>4, <1>5, QueuesKept
  <1>9. Mutexes'
    <2> SUFFICES ASSUME NEW k \in Keys, resource_locks'[k] # None
                 PROVE  (/\ pc[resource_locks[k]] # "unposted"
                         /\ key(resource_locks[k]) = k
                         /\ \/ \E j \in TaskId : arc[j] = resource_locks[k]
                            \/ \E j \in TaskId : reclaims(j, k))'
      BY DEF Mutexes
    <2>1. ASSUME NEW o \in TaskId, o = resource_locks[k]
          PROVE  /\ pc'[o] # "unposted" /\ key(o)' = k
                 /\ \/ \E j \in TaskId : arc[j] = o
                    \/ \E j \in TaskId : reclaims(j, k)
      <3>1. /\ pc[o] # "unposted" /\ key(o) = k
            /\ \/ \E j \in TaskId : arc[j] = o
               \/ \E j \in TaskId : reclaims(j, k)
        BY <2>1, NoneAssumption DEF Tidy, Mutexes
      <3> QED BY <1>4, <3>1, OnlyOthers DEF Only, key
    <2>2. CASE k = key(i)
      <3>1. PICK o \in TaskId : o = m
        BY <1>2, <1>3, <2>2 DEF IInv, TypeOK
      <3>2. pc'[o] # "unposted" /\ key(o)' = k
        <4>1. CASE resource_locks[k] = None
          BY <1>1, <1>3, <1>4, <2>2, <3>1, <4>1 DEF key
        <4>2. CASE resource_locks[k] # None
          BY <1>3, <2>1, <2>2, <3>1, <4>2
        <4> QED BY <4>1, <4>2
      <3>3. resource_locks'[k] = o /\ arc'[i] = o
        BY <1>4, <2>2, <3>1
      <3>4. (pc[resource_locks[k]] # "unposted" /\ key(resource_locks[k]) = k)'
        BY <3>2, <3>3 DEF key
      <3> QED BY <3>3, <3>4
    <2>3. CASE k # key(i)
      <3>1. PICK o \in TaskId : o = resource_locks[k]
        BY <1>4, <2>3 DEF IInv, TypeOK
      <3>2. resource_locks'[k] = o
        BY <1>4, <2>3, <3>1
      <3>3. (pc[resource_locks[k]] # "unposted" /\ key(resource_locks[k]) = k)'
        BY <2>1, <3>1, <3>2 DEF key
      <3>4. ASSUME NEW j \in TaskId, arc[j] = o
            PROVE  arc'[j] = o
        <4>1. j # i
          BY <1>2, <3>4, NoneAssumption
        <4> QED BY <1>4, <3>4, <4>1, OnlyOthers
      <3>5. ASSUME NEW j \in TaskId, reclaims(j, k)
            PROVE  reclaims(j, k)'
        <4>1. j # i
          BY <2>3, <3>5 DEF reclaims
        <4> QED BY <1>1, <1>4, <3>5, <4>1, OnlyOthers DEF reclaims
      <3> QED BY <2>1, <3>1, <3>2, <3>3, <3>4, <3>5
    <2> QED BY <2>2, <2>3
  <1> QED BY <1>6, <1>7, <1>8, <1>9 DEF Tidy

(* A future that drops the last clone of a mutex is the one to reclaim its *)
(* map entry, unless it is unwinding.                                      *)
LEMMA drop_tidy ==
    ASSUME IInv, Tidy, NEW i \in TaskId, drop_arc(i)
    PROVE  Tidy'
  <1>1. /\ pc[i] = "drop_arc"
        /\ pc' = [pc EXCEPT ![i] = IF panicked(i) THEN "guard" ELSE "prune"]
        /\ arc' = [arc EXCEPT ![i] = None]
        /\ UNCHANGED <<tasks, outcome, resource_locks, queue, permits, waiting>>
    BY DEF drop_arc, goto
  <1>2. tasks[i] # None /\ key(i) \in Keys
    BY <1>1, TaskThere
  <1>3. /\ Only(i) /\ panicked(i)' = panicked(i)
        /\ pc'[i] = IF panicked(i) THEN "guard" ELSE "prune"
    BY <1>1 DEF IInv, TypeOK, Only, panicked
  <1>4. HasPermit(i)' <=> HasPermit(i)
    BY <1>1, <1>3 DEF HasPermit
  <1>5. ~HasLock(i)
    BY <1>1 DEF HasLock
  <1>6. NotEnded'
    BY <1>3, NotEndedKept DEF Starting
  <1>7. Permits'
    BY <1>1, <1>3, <1>4, PermitsKept
  <1>8. Queues'
    BY <1>1, <1>3, <1>5, QueuesKept
  <1>9. Mutexes'
    <2> SUFFICES ASSUME NEW k \in Keys, resource_locks[k] # None
                 PROVE  (/\ pc[resource_locks[k]] # "unposted"
                         /\ key(resource_locks[k]) = k
                         /\ \/ \E j \in TaskId : arc[j] = resource_locks[k]
                            \/ \E j \in TaskId : reclaims(j, k))'
      BY <1>1 DEF Mutexes
    <2>1. PICK o \in TaskId : o = resource_locks[k]
      BY DEF IInv, TypeOK
    <2>2. /\ pc[o] # "unposted" /\ key(o) = k
          /\ \/ \E j \in TaskId : arc[j] = o
             \/ \E j \in TaskId : reclaims(j, k)
      BY <2>1 DEF Tidy, Mutexes
    <2>3. pc'[o] # "unposted" /\ key(o)' = k /\ resource_locks'[k] = o
      BY <1>1, <1>3, <2>1, <2>2, OnlyOthers DEF key
    <2>4. (pc[resource_locks[k]] # "unposted" /\ key(resource_locks[k]) = k)'
      BY <2>3 DEF key
    <2>5. ASSUME NEW j \in TaskId, arc[j] = o
          PROVE  arc'[j] = o \/ reclaims(j, k)'
      <3>1. CASE j = i
        <4>1. resource_locks[key(i)] = o
          BY <2>5, <3>1, NoneAssumption DEF IInv, ClonesInMap
        <4>2. key(o) = key(i)
          BY <1>2, <4>1, NoneAssumption DEF Tidy, Mutexes
        <4> QED BY <1>1, <1>2, <1>3, <2>2, <3>1, <4>2 DEF reclaims, key
      <3>2. CASE j # i
        BY <1>3, <2>5, <3>2, OnlyOthers
      <3> QED BY <3>1, <3>2
    <2>6. ASSUME NEW j \in TaskId, reclaims(j, k)
          PROVE  reclaims(j, k)'
      BY <1>1, <1>3, <2>6, OnlyOthers DEF reclaims, key
    <2> QED BY <2>2, <2>3, <2>4, <2>5, <2>6
  <1> QED BY <1>6, <1>7, <1>8, <1>9 DEF Tidy

(* The reclaim removes the entry of a mutex that nobody has a clone of.    *)
LEMMA prune_tidy ==
    ASSUME IInv, Tidy, NEW i \in TaskId, prune_resource_lock(i)
    PROVE  Tidy'
  <1>1. /\ pc[i] = "prune" /\ pc' = [pc EXCEPT ![i] = "release"]
        /\ resource_locks' =
              IF \A j \in TaskId : arc[j] = None \/ arc[j] # resource_locks[key(i)]
              THEN [resource_locks EXCEPT ![key(i)] = None] ELSE resource_locks
        /\ UNCHANGED <<tasks, outcome, arc, queue, permits, waiting>>
    BY DEF prune_resource_lock, goto
  <1>2. tasks[i] # None /\ key(i) \in Keys /\ ~panicked(i)
    BY <1>1, TaskThere DEF IInv, HappyPath
  <1>3. /\ Only(i) /\ panicked(i)' = panicked(i) /\ pc'[i] = "release"
        /\ \A k \in Keys : resource_locks'[k] # None =>
              resource_locks'[k] = resource_locks[k]
        /\ \A k \in Keys : k # key(i) => resource_locks'[k] = resource_locks[k]
        /\ resource_locks'[key(i)] # None =>
              \E j \in TaskId : arc[j] = resource_locks[key(i)]
    BY <1>1, <1>2 DEF IInv, TypeOK, Only, panicked
  <1>4. HasPermit(i)' /\ HasPermit(i)
    BY <1>1, <1>3 DEF HasPermit
  <1>5. ~HasLock(i)
    BY <1>1 DEF HasLock
  <1>6. NotEnded'
    BY <1>3, NotEndedKept DEF Starting
  <1>7. Permits'
    BY <1>1, <1>3, <1>4, PermitsKept
  <1>8. Queues'
    BY <1>1, <1>3, <1>5, QueuesKept
  <1>9. Mutexes'
    <2> SUFFICES ASSUME NEW k \in Keys, resource_locks'[k] # None
                 PROVE  (/\ pc[resource_locks[k]] # "unposted"
                         /\ key(resource_locks[k]) = k
                         /\ \/ \E j \in TaskId : arc[j] = resource_locks[k]
                            \/ \E j \in TaskId : reclaims(j, k))'
      BY DEF Mutexes
    <2>1. PICK o \in TaskId : o = resource_locks[k] /\ resource_locks'[k] = o
      BY <1>3 DEF IInv, TypeOK
    <2>2. /\ pc[o] # "unposted" /\ key(o) = k
          /\ \/ \E j \in TaskId : arc[j] = o
             \/ \E j \in TaskId : reclaims(j, k)
      BY <2>1, NoneAssumption DEF Tidy, Mutexes
    <2>3. pc'[o] # "unposted" /\ key(o)' = k
      BY <1>1, <1>3, <2>2, OnlyOthers DEF key
    <2>4. (pc[resource_locks[k]] # "unposted" /\ key(resource_locks[k]) = k)'
      BY <2>1, <2>3 DEF key
    <2>5. CASE k = key(i)
      BY <1>1, <1>3, <2>1, <2>4, <2>5
    <2>6. CASE k # key(i)
      <3>1. ASSUME NEW j \in TaskId, reclaims(j, k)
            PROVE  reclaims(j, k)'
        BY <1>1, <1>3, <2>6, <3>1, OnlyOthers DEF reclaims
      <3> QED BY <1>1, <2>1, <2>2, <2>4, <3>1
    <2> QED BY <2>5, <2>6
  <1> QED BY <1>6, <1>7, <1>8, <1>9 DEF Tidy

(* A task that waits for its mutex or holds it, in the state after a step. *)
InLineNow(j) ==
    \/ pc'[j] \in {"queued", "permit", "running", "posting", "record", "unlock"}
    \/ pc'[j] = "release" /\ outcome'[j] = Err("task panicked")

(* Tasks in line for their mutex, none twice, are a queue in order.        *)
LEMMA QueueInOrder ==
    ASSUME NEW m \in TaskId, NEW q, queue'[m] = q,
           \A n \in 1 .. Len(q) : arc'[q[n]] = m /\ InLineNow(q[n]),
           \A k, n \in 1 .. Len(q) : q[k] = q[n] => k = n
    PROVE  (/\ \A n \in 1 .. Len(queue[m]) :
                 /\ arc[queue[m][n]] = m
                 /\ pc[queue[m][n]] = "queued" \/ HasLock(queue[m][n])
            /\ \A k, n \in 1 .. Len(queue[m]) :
                 queue[m][k] = queue[m][n] => k = n)'
  <1>1. ASSUME NEW n \in 1 .. Len(queue'[m])
        PROVE  (pc[queue[m][n]] = "queued" \/ HasLock(queue[m][n]))'
    BY DEF HasLock, panicked, InLineNow
  <1>2. ASSUME NEW n \in 1 .. Len(queue'[m])
        PROVE  arc'[queue'[m][n]] = m
    OBVIOUS
  <1>3. ASSUME NEW k \in 1 .. Len(queue'[m]), NEW n \in 1 .. Len(queue'[m]),
               queue'[m][k] = queue'[m][n]
        PROVE  k = n
    BY <1>3
  <1> QED BY <1>1, <1>2, <1>3

(* A future that joins the queue of its mutex was not in it.               *)
LEMMA lock_owned_tidy ==
    ASSUME IInv, Tidy, NEW i \in TaskId, lock_owned(i)
    PROVE  Tidy'
  <1>1. /\ pc[i] = "lock" /\ pc' = [pc EXCEPT ![i] = "queued"]
        /\ queue' = [queue EXCEPT ![arc[i]] = Append(@, i)]
        /\ UNCHANGED <<tasks, outcome, arc, resource_locks, permits, waiting>>
    BY DEF lock_owned, goto
  <1>2. /\ arc[i] \in TaskId /\ outcome[i] = None /\ ~HasLock(i)
        /\ ~HasPermit(i)
    BY <1>1 DEF IInv, ClonesInMap, HasClone, Tidy, NotEnded, Starting, HasLock, HasPermit
  <1>3. /\ Only(i) /\ panicked(i)' = panicked(i) /\ pc'[i] = "queued"
        /\ ~HasPermit(i)'
    BY <1>1, <1>2 DEF IInv, TypeOK, Only, panicked, HasPermit
  <1>4. NotEnded'
    BY <1>1, <1>2, <1>3, NotEndedKept
  <1>5. Permits'
    BY <1>1, <1>2, <1>3, PermitsKept
  <1>6. Mutexes'
    BY <1>1, <1>3, MutexesKept
  <1>7. Queues'
    <2> SUFFICES ASSUME NEW m \in TaskId
                 PROVE  (/\ \A n \in 1 .. Len(queue[m]) :
                              /\ arc[queue[m][n]] = m
                              /\ pc[queue[m][n]] = "queued" \/ HasLock(queue[m][n])
                         /\ \A k, n \in 1 .. Len(queue[m]) :
                              queue[m][k] = queue[m][n] => k = n)'
      BY DEF Queues
    <2>1. ASSUME NEW n \in 1 .. Len(queue[m]), NEW j \in TaskId, j = queue[m][n]
          PROVE  /\ j # i /\ arc'[j] = m
                 /\ InLineNow(j)
      <3>1. arc[j] = m /\ (pc[j] = "queued" \/ HasLock(j))
        BY <2>1 DEF Tidy, Queues
      <3>2. j # i
        BY <1>1, <1>2, <3>1
      <3> QED BY <1>3, <3>1, <3>2, OnlyOthers DEF Only, HasLock, panicked, InLineNow
    <2>2. queue[m] \in Seq(TaskId)
      BY DEF IInv, TypeOK
    <2>3. \A k, n \in 1 .. Len(queue[m]) : queue[m][k] = queue[m][n] => k = n
      BY DEF Tidy, Queues
    <2>4. CASE m = arc[i]
      <3> DEFINE q == Append(queue[m], i)
      <3>1. /\ queue'[m] = q /\ Len(q) = Len(queue[m]) + 1
            /\ \A n \in 1 .. Len(queue[m]) : q[n] = queue[m][n]
            /\ q[Len(queue[m]) + 1] = i /\ Len(queue[m]) \in Nat
        <4>1. queue'[m] = q
          BY <1>1, <2>4 DEF IInv, TypeOK
        <4> QED BY <2>2, <4>1, AppendProperties
      <3> HIDE DEF q
      <3>2. ASSUME NEW n \in 1 .. Len(q)
            PROVE  \/ n = Len(queue[m]) + 1 /\ q[n] = i
                   \/ n \in 1 .. Len(queue[m]) /\ q[n] = queue[m][n] /\ q[n] \in TaskId
        BY <2>2, <3>1
      <3>3. ASSUME NEW n \in 1 .. Len(q)
            PROVE  arc'[q[n]] = m /\ InLineNow(q[n])
        BY <1>1, <1>3, <2>1, <2>4, <3>2 DEF InLineNow
      <3>4. ASSUME NEW k \in 1 .. Len(q), NEW n \in 1 .. Len(q), q[k] = q[n]
            PROVE  k = n
        BY <2>1, <2>3, <3>2, <3>4
      <3>10. \A n \in 1 .. Len(q) : arc'[q[n]] = m /\ InLineNow(q[n])
        BY <3>3
      <3>11. \A k, n \in 1 .. Len(q) : q[k] = q[n] => k = n
        BY <3>4
      <3>12. queue'[m] = q
        BY <3>1
      <3> QED BY <3>10, <3>11, <3>12, QueueInOrder
    <2>5. CASE m # arc[i]
      <3>1. queue'[m] = queue[m]
        BY <1>1, <1>2, <2>5 DEF IInv, TypeOK
      <3>2. ASSUME NEW n \in 1 .. Len(queue[m])
            PROVE  arc'[queue[m][n]] = m /\ InLineNow(queue[m][n])
        <4>1. PICK j \in TaskId : j = queue[m][n]
          BY <2>2
        <4> QED BY <2>1, <4>1
      <3> QED BY <2>3, <3>1, <3>2, QueueInOrder
    <2> QED BY <2>4, <2>5
  <1> QED BY <1>4, <1>5, <1>6, <1>7 DEF Tidy

(* A future that unlocks leaves the queue of its mutex for good.           *)
LEMMA unlock_tidy ==
    ASSUME IInv, Tidy, NEW i \in TaskId, unlock(i)
    PROVE  Tidy'
  <1>1. /\ pc[i] = "unlock" /\ pc' = [pc EXCEPT ![i] = "drop_arc"]
        /\ queue' = [queue EXCEPT ![arc[i]] = Tail(@)]
        /\ UNCHANGED <<tasks, outcome, arc, resource_locks, permits, waiting>>
    BY DEF unlock, goto
  <1>2. /\ arc[i] \in TaskId /\ HasLock(i) /\ holder(i)
    BY <1>1 DEF IInv, ClonesInMap, HasClone, HasLock, LockHolders
  <1>3. /\ Only(i) /\ panicked(i)' = panicked(i) /\ pc'[i] = "drop_arc"
        /\ HasPermit(i)' <=> HasPermit(i)
    BY <1>1, <1>2 DEF IInv, TypeOK, Only, panicked, HasPermit
  <1>4. NotEnded'
    BY <1>1, <1>3, NotEndedKept DEF Starting
  <1>5. Permits'
    BY <1>1, <1>3, PermitsKept
  <1>6. Mutexes'
    BY <1>1, <1>3, MutexesKept
  <1>7. Queues'
    <2> SUFFICES ASSUME NEW m \in TaskId
                 PROVE  (/\ \A n \in 1 .. Len(queue[m]) :
                              /\ arc[queue[m][n]] = m
                              /\ pc[queue[m][n]] = "queued" \/ HasLock(queue[m][n])
                         /\ \A k, n \in 1 .. Len(queue[m]) :
                              queue[m][k] = queue[m][n] => k = n)'
      BY DEF Queues
    <2>1. ASSUME NEW n \in 1 .. Len(queue[m]), NEW j \in TaskId, j = queue[m][n], j # i
          PROVE  /\ arc'[j] = m
                 /\ InLineNow(j)
      <3>1. arc[j] = m /\ (pc[j] = "queued" \/ HasLock(j))
        BY <2>1 DEF Tidy, Queues
      <3> QED BY <1>3, <2>1, <3>1 DEF Only, HasLock, panicked, InLineNow
    <2>2. queue[m] \in Seq(TaskId)
      BY DEF IInv, TypeOK
    <2>3. \A k, n \in 1 .. Len(queue[m]) : queue[m][k] = queue[m][n] => k = n
      BY DEF Tidy, Queues
    <2>4. CASE m = arc[i]
      <3> DEFINE q == Tail(queue[m])
      <3>1. queue[m] # << >> /\ queue[m][1] = i /\ Len(queue[m]) \in Nat
        BY <1>2, <2>2, <2>4 DEF holder
      <3>2. /\ queue'[m] = q /\ Len(q) = Len(queue[m]) - 1
            /\ \A n \in 1 .. Len(q) : q[n] = queue[m][n + 1]
            /\ Len(q) \in Nat
        <4>1. queue'[m] = q
          BY <1>1, <2>4 DEF IInv, TypeOK
        <4> QED BY <2>2, <3>1, <4>1, HeadTailProperties
      <3> HIDE DEF q
      <3>3. ASSUME NEW n \in 1 .. Len(q)
            PROVE  /\ n + 1 \in 1 .. Len(queue[m])
                   /\ q[n] = queue[m][n + 1] /\ q[n] \in TaskId /\ q[n] # i
        <4>1. n + 1 \in 1 .. Len(queue[m]) /\ 1 \in 1 .. Len(queue[m]) /\ n + 1 # 1
          BY <3>1, <3>2
        <4> QED BY <2>2, <2>3, <3>1, <3>2, <4>1
      <3>4. ASSUME NEW n \in 1 .. Len(q)
            PROVE  arc'[q[n]] = m /\ InLineNow(q[n])
        BY <2>1, <3>3
      <3>5. ASSUME NEW k \in 1 .. Len(q), NEW n \in 1 .. Len(q), q[k] = q[n]
            PROVE  k = n
        <4>1. k + 1 = n + 1
          BY <2>3, <3>3, <3>5
        <4> QED BY <4>1
      <3>10. \A n \in 1 .. Len(q) : arc'[q[n]] = m /\ InLineNow(q[n])
        BY <3>4
      <3>11. \A k, n \in 1 .. Len(q) : q[k] = q[n] => k = n
        BY <3>5
      <3>12. queue'[m] = q
        BY <3>2
      <3> QED BY <3>10, <3>11, <3>12, QueueInOrder
    <2>5. CASE m # arc[i]
      <3>1. queue'[m] = queue[m]
        BY <1>1, <1>2, <2>5 DEF IInv, TypeOK
      <3>2. ASSUME NEW n \in 1 .. Len(queue[m])
            PROVE  arc'[queue[m][n]] = m /\ InLineNow(queue[m][n])
        <4>1. PICK j \in TaskId : j = queue[m][n]
          BY <2>2
        <4>2. j # i
          BY <2>5, <4>1 DEF Tidy, Queues
        <4> QED BY <2>1, <4>1, <4>2
      <3> QED BY <2>3, <3>1, <3>2, QueueInOrder
    <2> QED BY <2>4, <2>5
  <1> QED BY <1>4, <1>5, <1>6, <1>7 DEF Tidy

(* What the permits and the waiters of one semaphore are. *)
LEMMA SemaphoreFacts ==
    ASSUME IInv, Tidy, NEW s \in Semaphores
    PROVE  /\ permits[s] \subseteq TaskId /\ waiting[s] \in Seq(TaskId)
           /\ \A j \in permits[s] : /\ semaphore_of(tasks[j]) = s
                                    /\ pc[j] = "permit" \/ HasPermit(j)
           /\ \A n \in 1 .. Len(waiting[s]) :
                 /\ waiting[s][n] \in TaskId
                 /\ semaphore_of(tasks[waiting[s][n]]) = s
                 /\ pc[waiting[s][n]] = "permit"
                 /\ waiting[s][n] \notin permits[s]
           /\ \A m, n \in 1 .. Len(waiting[s]) :
                 waiting[s][m] = waiting[s][n] => m = n
           /\ \A j \in TaskId :
                 HasPermit(j) /\ semaphore_of(tasks[j]) = s => j \in permits[s]
           /\ Cardinality(permits[s]) <= Capacity[s]
  <1>1. permits[s] \subseteq TaskId /\ waiting[s] \in Seq(TaskId)
    BY DEF IInv, TypeOK
  <1>2. \A n \in 1 .. Len(waiting[s]) : waiting[s][n] \in TaskId
    BY <1>1
  <1>3. s # None
    BY NoneAssumption
  <1> QED BY <1>1, <1>2, <1>3
          DEF Tidy, Permits, PermitsHeld, PermitsWaited, PermitsTaken, PermitsBounded

(* A task that asks for a permit gets one that is free, or waits.          *)
LEMMA acquire_tidy ==
    ASSUME IInv, Tidy, NEW i \in TaskId, acquire_permit(i)
    PROVE  Tidy'
  <1> DEFINE s == semaphore_of(tasks[i])
  <1>1. /\ pc[i] = "queued"
        /\ UNCHANGED <<tasks, outcome, arc, resource_locks, queue>>
        /\ \/ /\ s = None /\ pc' = [pc EXCEPT ![i] = "running"]
              /\ UNCHANGED <<permits, waiting>>
           \/ /\ s # None /\ pc' = [pc EXCEPT ![i] = "running"]
              /\ Cardinality(permits[s]) < Capacity[s]
              /\ permits' = [permits EXCEPT ![s] = permits[s] \cup {i}]
              /\ UNCHANGED waiting
           \/ /\ s # None /\ pc' = [pc EXCEPT ![i] = "permit"]
              /\ waiting' = [waiting EXCEPT ![s] = Append(waiting[s], i)]
              /\ UNCHANGED permits
    BY DEF acquire_permit, goto
  <1>2. s \in Semaphores \cup {None}
    BY SemaphoreType
  <1>3. outcome[i] = None /\ ~panicked(i) /\ ~HasPermit(i)
    <2>1. outcome[i] = None
      BY <1>1 DEF Tidy, NotEnded, Starting
    <2> QED BY <1>1, <2>1, OutcomeAssumption, OutcomeType DEF panicked, HasPermit
  <1> HIDE DEF s
  <1>4. /\ Only(i) /\ panicked(i)' = panicked(i)
        /\ pc'[i] = "running" \/ pc'[i] = "permit"
    BY <1>1 DEF IInv, TypeOK, Only, panicked
  <1>5. NotEnded'
    BY <1>1, <1>3, <1>4, NotEndedKept
  <1>6. HasLock(i)'
    BY <1>4 DEF HasLock
  <1>7. Queues'
    BY <1>1, <1>4, <1>6, QueuesKept
  <1>8. Mutexes'
    BY <1>1, <1>3, <1>4, MutexesKept
  <1>9. Permits'
    <2>1. CASE s = None
      <3>1. UNCHANGED <<permits, waiting>>
        BY <1>1, <2>1
      <3> QED BY <1>4, <2>1, <3>1, PermitsOfOthers DEF s
    <2>2. CASE s # None
      <3>1. PICK r \in Semaphores : r = s
        BY <1>2, <2>2
      <3>2. semaphore_of(tasks[i]) = r
        BY <3>1 DEF s
      <3>3. permits[r] \subseteq TaskId /\ waiting[r] \in Seq(TaskId)
        BY SemaphoreFacts
      <3>4. /\ \A j \in permits[r] : /\ semaphore_of(tasks[j]) = r
                                     /\ pc[j] = "permit" \/ HasPermit(j)
            /\ \A j \in TaskId :
                  HasPermit(j) /\ semaphore_of(tasks[j]) = r => j \in permits[r]
            /\ Cardinality(permits[r]) <= Capacity[r]
        BY SemaphoreFacts
      <3>5. /\ \A n \in 1 .. Len(waiting[r]) :
                  /\ waiting[r][n] \in TaskId
                  /\ semaphore_of(tasks[waiting[r][n]]) = r
                  /\ pc[waiting[r][n]] = "permit"
                  /\ waiting[r][n] \notin permits[r]
            /\ \A m, n \in 1 .. Len(waiting[r]) :
                  waiting[r][m] = waiting[r][n] => m = n
        BY SemaphoreFacts
      <3>6. i \notin permits[r]
        BY <1>1, <1>3, <3>4
      <3>7. /\ \A j \in permits[r] : pc'[j] = "permit" \/ HasPermit(j)'
            /\ \A n \in 1 .. Len(waiting[r]) :
                  pc'[waiting[r][n]] = "permit" /\ waiting[r][n] # i
            /\ \A j \in TaskId :
                  j # i /\ HasPermit(j)' /\ semaphore_of(tasks[j]) = r => j \in permits[r]
        BY <1>1, <1>4, <3>3, <3>4, <3>5, <3>6, OnlyOthers
      <3>8. CASE /\ pc' = [pc EXCEPT ![i] = "running"]
                 /\ Cardinality(permits[r]) < Capacity[r]
                 /\ permits' = [permits EXCEPT ![r] = permits[r] \cup {i}]
                 /\ UNCHANGED waiting
        <4> DEFINE P == permits[r] \cup {i}
        <4>1. /\ permits'[r] = P /\ waiting'[r] = waiting[r] /\ pc'[i] = "running"
              /\ \A o \in Semaphores : o # r =>
                    permits'[o] = permits[o] /\ waiting'[o] = waiting[o]
          BY <3>8 DEF IInv, TypeOK
        <4>2. HasPermit(i)'
          BY <4>1 DEF HasPermit
        <4>3. \A j \in P : /\ j \in TaskId /\ semaphore_of(tasks[j]) = r
                           /\ pc'[j] = "permit" \/ HasPermit(j)'
          BY <3>2, <3>3, <3>4, <3>7, <4>2
        <4>4. \A n \in 1 .. Len(waiting[r]) :
                 /\ semaphore_of(tasks[waiting[r][n]]) = r
                 /\ pc'[waiting[r][n]] = "permit" /\ waiting[r][n] \notin P
          BY <3>5, <3>7
        <4>5. \A j \in TaskId : HasPermit(j)' /\ semaphore_of(tasks[j]) = r => j \in P
          BY <3>7
        <4>6. Cardinality(P) <= Capacity[r]
          <5>1. /\ IsFiniteSet(permits[r]) /\ Cardinality(permits[r]) \in Nat
                /\ Capacity[r] \in Nat
            BY PermitsFinite DEF IInv
          <5>2. Cardinality(P) = Cardinality(permits[r]) + 1
            BY <3>6, <5>1, FS_AddElement
          <5> QED BY <3>8, <5>1, <5>2
        <4> HIDE DEF P
        <4> QED BY <1>4, <3>2, <3>5, <4>1, <4>3, <4>4, <4>5, <4>6, PermitsMoved
      <3>9. CASE /\ pc' = [pc EXCEPT ![i] = "permit"]
                 /\ waiting' = [waiting EXCEPT ![r] = Append(waiting[r], i)]
                 /\ UNCHANGED permits
        <4> DEFINE W == Append(waiting[r], i)
        <4>1. /\ permits'[r] = permits[r] /\ waiting'[r] = W /\ pc'[i] = "permit"
              /\ \A o \in Semaphores : o # r =>
                    permits'[o] = permits[o] /\ waiting'[o] = waiting[o]
          BY <3>9 DEF IInv, TypeOK
        <4>2. ~HasPermit(i)'
          BY <4>1 DEF HasPermit
        <4>3. /\ Len(W) = Len(waiting[r]) + 1 /\ Len(waiting[r]) \in Nat
              /\ \A n \in 1 .. Len(waiting[r]) : W[n] = waiting[r][n]
              /\ W[Len(waiting[r]) + 1] = i
          BY <3>3, AppendProperties
        <4> HIDE DEF W
        <4>4. \A n \in 1 .. Len(W) : \/ n = Len(waiting[r]) + 1 /\ W[n] = i
                                     \/ n \in 1 .. Len(waiting[r]) /\ W[n] = waiting[r][n]
          BY <4>3
        <4>5. \A n \in 1 .. Len(W) :
                 /\ semaphore_of(tasks[W[n]]) = r
                 /\ pc'[W[n]] = "permit" /\ W[n] \notin permits[r]
          BY <3>2, <3>5, <3>6, <3>7, <4>1, <4>4
        <4>6. \A m, n \in 1 .. Len(W) : W[m] = W[n] => m = n
          BY <3>5, <3>7, <4>4
        <4>7. \A j \in TaskId :
                 HasPermit(j)' /\ semaphore_of(tasks[j]) = r => j \in permits[r]
          BY <3>7, <4>2
        <4>8. \A j \in permits[r] : /\ j \in TaskId /\ semaphore_of(tasks[j]) = r
                                    /\ pc'[j] = "permit" \/ HasPermit(j)'
          BY <3>3, <3>4, <3>7
        <4> QED BY <1>4, <3>2, <3>4, <4>1, <4>5, <4>6, <4>7, <4>8, PermitsMoved
      <3> QED BY <1>1, <2>2, <3>1, <3>8, <3>9
    <2> QED BY <2>1, <2>2
  <1> QED BY <1>5, <1>7, <1>8, <1>9 DEF Tidy

(* A task that finds the permit handed to it no longer waits for one.      *)
LEMMA granted_tidy ==
    ASSUME IInv, Tidy, NEW i \in TaskId, permit_granted(i)
    PROVE  Tidy'
  <1>1. /\ pc[i] = "permit" /\ pc' = [pc EXCEPT ![i] = "running"]
        /\ i \in permits[semaphore_of(tasks[i])]
        /\ UNCHANGED <<tasks, outcome, arc, resource_locks, queue, permits, waiting>>
    BY DEF permit_granted, goto, future, locks
  <1>2. outcome[i] = None /\ ~panicked(i)
    <2>1. outcome[i] = None
      BY <1>1 DEF Tidy, NotEnded, Starting
    <2> QED BY <1>1, <2>1, OutcomeAssumption, OutcomeType DEF panicked
  <1>3. /\ Only(i) /\ panicked(i)' = panicked(i) /\ pc'[i] = "running"
    BY <1>1 DEF IInv, TypeOK, Only, panicked
  <1>4. NotEnded'
    BY <1>1, <1>2, <1>3, NotEndedKept
  <1>5. HasLock(i)' /\ HasPermit(i)'
    BY <1>3 DEF HasLock, HasPermit
  <1>6. Queues'
    BY <1>1, <1>3, <1>5, QueuesKept
  <1>7. Mutexes'
    BY <1>1, <1>2, <1>3, MutexesKept
  <1>8. Permits'
    <2>1. CASE semaphore_of(tasks[i]) = None
      BY <1>1, <1>3, <2>1, PermitsOfOthers
    <2>2. CASE semaphore_of(tasks[i]) # None
      <3>1. PICK r \in Semaphores : r = semaphore_of(tasks[i])
        BY <2>2, SemaphoreType
      <3>2. /\ permits[r] \subseteq TaskId
            /\ \A j \in permits[r] : /\ semaphore_of(tasks[j]) = r
                                     /\ pc[j] = "permit" \/ HasPermit(j)
            /\ \A j \in TaskId :
                  HasPermit(j) /\ semaphore_of(tasks[j]) = r => j \in permits[r]
            /\ Cardinality(permits[r]) <= Capacity[r]
        BY SemaphoreFacts
      <3>3. /\ \A n \in 1 .. Len(waiting[r]) :
                  /\ waiting[r][n] \in TaskId
                  /\ semaphore_of(tasks[waiting[r][n]]) = r
                  /\ pc[waiting[r][n]] = "permit"
                  /\ waiting[r][n] \notin permits[r]
            /\ \A m, n \in 1 .. Len(waiting[r]) :
                  waiting[r][m] = waiting[r][n] => m = n
        BY SemaphoreFacts
      <3>4. i \in permits[r]
        BY <1>1, <3>1
      <3>5. \A n \in 1 .. Len(waiting[r]) :
               /\ semaphore_of(tasks[waiting[r][n]]) = r
               /\ pc'[waiting[r][n]] = "permit" /\ waiting[r][n] \notin permits[r]
        BY <1>3, <3>3, <3>4, OnlyOthers
      <3>6. \A j \in permits[r] : /\ j \in TaskId /\ semaphore_of(tasks[j]) = r
                                  /\ pc'[j] = "permit" \/ HasPermit(j)'
        BY <1>3, <1>5, <3>2, OnlyOthers
      <3>7. \A j \in TaskId :
               HasPermit(j)' /\ semaphore_of(tasks[j]) = r => j \in permits[r]
        BY <1>3, <3>2, <3>4, OnlyOthers
      <3>8. permits' = permits /\ waiting' = waiting
        BY <1>1
      <3> QED BY <1>3, <3>1, <3>2, <3>3, <3>5, <3>6, <3>7, <3>8, PermitsMoved
    <2> QED BY <2>1, <2>2
  <1> QED BY <1>4, <1>6, <1>7, <1>8 DEF Tidy

(* A permit given back goes to the longest waiter or is free again.        *)
LEMMA release_tidy ==
    ASSUME IInv, Tidy, NEW i \in TaskId, release_permit(i)
    PROVE  Tidy'
  <1> DEFINE s == semaphore_of(tasks[i])
  <1>1. /\ pc[i] = "release"
        /\ pc' = [pc EXCEPT ![i] = IF panicked(i) THEN "unlock" ELSE "finish"]
        /\ UNCHANGED <<tasks, outcome, arc, resource_locks, queue>>
        /\ \/ s = None /\ UNCHANGED <<permits, waiting>>
           \/ /\ s # None /\ waiting[s] = << >> /\ UNCHANGED waiting
              /\ permits' = [permits EXCEPT ![s] = permits[s] \ {i}]
           \/ /\ s # None /\ waiting[s] # << >>
              /\ permits' = [permits EXCEPT ![s] = (permits[s] \ {i}) \cup {Head(waiting[s])}]
              /\ waiting' = [waiting EXCEPT ![s] = Tail(waiting[s])]
    BY DEF release_permit, give_back, goto
  <1>2. s \in Semaphores \cup {None}
    BY SemaphoreType
  <1>3. HasPermit(i)
    BY <1>1 DEF HasPermit
  <1> HIDE DEF s
  <1>4. /\ Only(i) /\ panicked(i)' = panicked(i)
        /\ pc'[i] = IF panicked(i) THEN "unlock" ELSE "finish"
    BY <1>1 DEF IInv, TypeOK, Only, panicked
  <1>5. ~HasPermit(i)' /\ (HasLock(i) => HasLock(i)')
    BY <1>1, <1>4 DEF HasPermit, HasLock
  <1>6. NotEnded'
    BY <1>1, <1>4, NotEndedKept DEF Starting
  <1>7. Queues'
    BY <1>1, <1>4, <1>5, QueuesKept
  <1>8. Mutexes'
    BY <1>1, <1>4, MutexesKept
  <1>9. Permits'
    <2>1. CASE s = None
      <3>1. UNCHANGED <<permits, waiting>>
        BY <1>1, <2>1
      <3> QED BY <1>4, <2>1, <3>1, PermitsOfOthers DEF s
    <2>2. CASE s # None
      <3>1. PICK r \in Semaphores : r = s
        BY <1>2, <2>2
      <3>2. semaphore_of(tasks[i]) = r
        BY <3>1 DEF s
      <3>3. permits[r] \subseteq TaskId /\ waiting[r] \in Seq(TaskId)
        BY SemaphoreFacts
      <3>4. /\ \A j \in permits[r] : /\ semaphore_of(tasks[j]) = r
                                     /\ pc[j] = "permit" \/ HasPermit(j)
            /\ \A j \in TaskId :
                  HasPermit(j) /\ semaphore_of(tasks[j]) = r => j \in permits[r]
            /\ Cardinality(permits[r]) <= Capacity[r]
        BY SemaphoreFacts
      <3>5. /\ \A n \in 1 .. Len(waiting[r]) :
                  /\ waiting[r][n] \in TaskId
                  /\ semaphore_of(tasks[waiting[r][n]]) = r
                  /\ pc[waiting[r][n]] = "permit"
                  /\ waiting[r][n] \notin permits[r]
            /\ \A m, n \in 1 .. Len(waiting[r]) :
                  waiting[r][m] = waiting[r][n] => m = n
        BY SemaphoreFacts
      <3>6. i \in permits[r] /\ pc[i] # "permit"
        BY <1>1, <1>3, <3>2, <3>4
      <3>7. /\ \A j \in permits[r] : j # i => pc'[j] = "permit" \/ HasPermit(j)'
            /\ \A n \in 1 .. Len(waiting[r]) :
                  pc'[waiting[r][n]] = "permit" /\ waiting[r][n] # i
            /\ \A j \in TaskId : HasPermit(j)' /\ semaphore_of(tasks[j]) = r =>
                  j # i /\ j \in permits[r]
        BY <1>4, <1>5, <3>3, <3>4, <3>5, <3>6, OnlyOthers
      <3>8. /\ IsFiniteSet(permits[r] \ {i})
            /\ Cardinality(permits[r] \ {i}) \in Nat /\ Capacity[r] \in Nat
            /\ Cardinality(permits[r] \ {i}) + 1 <= Capacity[r]
        <4>1. /\ IsFiniteSet(permits[r]) /\ Cardinality(permits[r]) \in Nat
              /\ Capacity[r] \in Nat
          BY PermitsFinite DEF IInv
        <4>2. /\ IsFiniteSet(permits[r] \ {i})
              /\ Cardinality(permits[r] \ {i}) = Cardinality(permits[r]) - 1
          BY <3>6, <4>1, FS_RemoveElement
        <4>3. Cardinality(permits[r] \ {i}) \in Nat
          BY <4>2, FS_CardinalityType
        <4> QED BY <3>4, <4>1, <4>2, <4>3
      <3>9. CASE /\ waiting[r] = << >> /\ UNCHANGED waiting
                 /\ permits' = [permits EXCEPT ![r] = permits[r] \ {i}]
        <4> DEFINE P == permits[r] \ {i}
        <4>1. /\ permits'[r] = P /\ waiting'[r] = waiting[r]
              /\ \A o \in Semaphores : o # r =>
                    permits'[o] = permits[o] /\ waiting'[o] = waiting[o]
          BY <3>9 DEF IInv, TypeOK
        <4>2. \A j \in P : /\ j \in TaskId /\ semaphore_of(tasks[j]) = r
                           /\ pc'[j] = "permit" \/ HasPermit(j)'
          BY <3>3, <3>4, <3>7
        <4>3. \A n \in 1 .. Len(waiting[r]) :
                 /\ semaphore_of(tasks[waiting[r][n]]) = r
                 /\ pc'[waiting[r][n]] = "permit" /\ waiting[r][n] \notin P
          BY <3>5, <3>7
        <4>4. \A j \in TaskId : HasPermit(j)' /\ semaphore_of(tasks[j]) = r => j \in P
          BY <3>7
        <4>5. Cardinality(P) <= Capacity[r]
          BY <3>8
        <4> HIDE DEF P
        <4> QED BY <1>4, <3>2, <3>5, <4>1, <4>2, <4>3, <4>4, <4>5, PermitsMoved
      <3>10. CASE /\ waiting[r] # << >>
                  /\ permits' = [permits EXCEPT ![r] = (permits[r] \ {i}) \cup {Head(waiting[r])}]
                  /\ waiting' = [waiting EXCEPT ![r] = Tail(waiting[r])]
        <4> DEFINE W == Tail(waiting[r])
        <4>1. PICK h \in TaskId : h = Head(waiting[r]) /\ h = waiting[r][1]
          BY <3>3, <3>10
        <4> DEFINE P == (permits[r] \ {i}) \cup {h}
        <4>2. /\ Len(W) = Len(waiting[r]) - 1 /\ Len(W) \in Nat /\ Len(waiting[r]) \in Nat
              /\ \A n \in 1 .. Len(W) : W[n] = waiting[r][n + 1]
          BY <3>3, <3>10, HeadTailProperties
        <4>3. /\ permits'[r] = P /\ waiting'[r] = W
              /\ \A o \in Semaphores : o # r =>
                    permits'[o] = permits[o] /\ waiting'[o] = waiting[o]
          BY <3>10, <4>1 DEF IInv, TypeOK
        <4> HIDE DEF W
        <4>4. 1 \in 1 .. Len(waiting[r])
          BY <4>2
        <4>5. /\ semaphore_of(tasks[h]) = r /\ pc'[h] = "permit"
              /\ h # i /\ h \notin permits[r]
          BY <3>5, <3>7, <4>1, <4>4
        <4>6. \A n \in 1 .. Len(W) : /\ n + 1 \in 1 .. Len(waiting[r]) /\ n + 1 # 1
                                     /\ W[n] = waiting[r][n + 1]
          BY <4>2
        <4>7. \A j \in P : /\ j \in TaskId /\ semaphore_of(tasks[j]) = r
                           /\ pc'[j] = "permit" \/ HasPermit(j)'
          BY <3>3, <3>4, <3>7, <4>5
        <4>8. ASSUME NEW n \in 1 .. Len(W)
              PROVE  /\ semaphore_of(tasks[W[n]]) = r
                     /\ pc'[W[n]] = "permit" /\ W[n] \notin P
          <5>1. PICK q \in 1 .. Len(waiting[r]) : q # 1 /\ W[n] = waiting[r][q]
            BY <4>6
          <5>2. waiting[r][q] # h
            BY <3>5, <4>1, <4>4, <5>1
          <5> QED BY <3>5, <3>7, <5>1, <5>2
        <4>9. ASSUME NEW m \in 1 .. Len(W), NEW n \in 1 .. Len(W), W[m] = W[n]
              PROVE  m = n
          <5>1. m + 1 = n + 1
            BY <3>5, <4>6, <4>9, SMTT(40)
          <5> QED BY <5>1
        <4>10. \A j \in TaskId : HasPermit(j)' /\ semaphore_of(tasks[j]) = r => j \in P
          BY <3>7
        <4>11. Cardinality(P) <= Capacity[r]
          <5>1. Cardinality(P) = Cardinality(permits[r] \ {i}) + 1
            BY <3>8, <4>5, FS_AddElement
          <5> QED BY <3>8, <5>1
        <4> HIDE DEF P
        <4>12. /\ \A n \in 1 .. Len(W) : /\ semaphore_of(tasks[W[n]]) = r
                                         /\ pc'[W[n]] = "permit" /\ W[n] \notin P
               /\ \A m, n \in 1 .. Len(W) : W[m] = W[n] => m = n
          BY <4>8, <4>9
        <4> QED BY <1>4, <3>2, <4>3, <4>7, <4>10, <4>11, <4>12, PermitsMoved
      <3> QED BY <1>1, <2>2, <3>1, <3>9, <3>10
    <2> QED BY <2>1, <2>2
  <1> QED BY <1>6, <1>7, <1>8, <1>9 DEF Tidy

(* A scan that posts a follow-up is as before, and the new task is tidy.   *)
LEMMA post_follow_up_tidy ==
    ASSUME IInv, Tidy, NEW i \in TaskId, post_follow_up(i)
    PROVE  Tidy'
  <1> DEFINE v == pending_follow_ups(i)[posts[i] + 1]
             t == [variant |-> v, arg |-> tasks[i].arg]
  <1>1. pc[i] = "posting" /\ UNCHANGED <<outcome, locks>>
    BY DEF post_follow_up
  <1>2. tasks[i] \in Task
    BY <1>1, TaskThere
  <1>3. CASE v \in Variants /\ post(t)
    <2>1. t \in Task
      BY <1>2, <1>3 DEF Task
    <2> HIDE DEF t, v
    <2> QED BY <1>1, <1>3, <2>1, post_tidy
  <1>4. CASE UNCHANGED <<next_id, tasks, pc, completions, progress>>
    <2> HIDE DEF t, v
    <2>1. UNCHANGED <<arc, resource_locks, queue, permits, waiting, outcome, tasks, pc>>
      BY <1>1, <1>4 DEF locks
    <2>2. Quiet(i)
      BY <1>1, <2>1 DEF Quiet, Only, HasPermit, HasLock, panicked, Starting
    <2> QED BY <2>2, quiet_step
  <1> QED BY <1>3, <1>4 DEF post_follow_up

(* Callers, pollers and reports touch neither futures nor locks.           *)
LEMMA bystander_tidy ==
    ASSUME Tidy, UNCHANGED <<future, locks>>
    PROVE  Tidy'
  <1>1. UNCHANGED <<tasks, pc, outcome, arc, resource_locks, queue, permits, waiting>>
    BY DEF future, locks
  <1>2. NotEnded'
    BY <1>1 DEF Tidy, NotEnded
  <1>3. Queues'
    <2>1. \A j : HasLock(j)' <=> HasLock(j)
      BY <1>1 DEF HasLock, panicked
    <2>2. ASSUME NEW m \in TaskId, NEW n \in 1 .. Len(queue[m])
          PROVE  (/\ arc[queue[m][n]] = m
                  /\ pc[queue[m][n]] = "queued" \/ HasLock(queue[m][n]))'
      <3>1. arc[queue[m][n]] = m /\ (pc[queue[m][n]] = "queued" \/ HasLock(queue[m][n]))
        BY DEF Tidy, Queues
      <3> QED BY <1>1, <3>1 DEF HasLock, panicked
    <2> QED BY <1>1, <2>2 DEF Tidy, Queues
  <1>4. Permits'
    BY <1>1 DEF Tidy, Permits, PermitsHeld, PermitsWaited, PermitsTaken,
                PermitsBounded, HasPermit, panicked
  <1>5. Mutexes'
    BY <1>1 DEF Tidy, Mutexes, reclaims, key, panicked
  <1> QED BY <1>2, <1>3, <1>4, <1>5 DEF Tidy

(* Locks, permits and futures stay in order in every step.                 *)
LEMMA TidyStep == IInv /\ Tidy /\ [Next]_vars => Tidy'
  <1> SUFFICES ASSUME IInv, Tidy, [Next]_vars PROVE Tidy'
    OBVIOUS
  <1>1. ASSUME NEW i \in TaskId, FutureStep(i) PROVE Tidy'
    BY <1>1, quiet_steps, clone_tidy, lock_owned_tidy, acquire_tidy,
       granted_tidy, post_follow_up_tidy, unlock_tidy, drop_tidy, prune_tidy,
       release_tidy DEF FutureStep
  <1>2. CASE PostRoot
    <2>1. PICK t \in Roots : post(t)
      BY <1>2 DEF PostRoot
    <2>2. t \in Task /\ UNCHANGED <<outcome, locks>>
      BY <1>2, TaskAssumption DEF PostRoot
    <2> QED BY <2>1, <2>2, post_tidy
  <1>3. ASSUME UNCHANGED <<future, locks>> PROVE Tidy'
    BY <1>3, bystander_tidy
  <1>4. ASSUME UNCHANGED vars PROVE Tidy'
    <2>1. UNCHANGED <<future, locks>>
      BY <1>4 DEF vars
    <2> QED BY <1>3, <2>1
  <1> QED BY <1>1, <1>2, <1>3, <1>4
          DEF Next, report_progress_update, set_task_owner, await_completion,
              observe, time_out, snapshot, Quiescent

-----------------------------------------------------------------------------
(* What the progress map, the completion slots and the callers say.        *)

(* The entry of a task runs until the handler ended, or until the guard    *)
(* finds that it panicked; a terminal entry tells the task's outcome.      *)
EntryOf(i) ==
    /\ pc[i] \in Starting \cup {"posting"} => progress[i].state = "Running"
    /\ progress[i].state = "Running" =>
          \/ pc[i] \in Starting \cup {"posting"}
          \/ panicked(i) /\ pc[i] \in {"release", "unlock", "drop_arc", "guard"}
    /\ terminal(progress[i]) =>
          outcome[i] # None /\ retained_outcome(progress[i]) = outcome[i]

(* The receiver of a task is in the map or was taken until the slot is     *)
(* reclaimed, and only a panic closes a channel nothing was sent on.       *)
SlotOf(i) ==
    /\ pc[i] \in {"close", "done"} => i \notin completions
    /\ pc[i] \notin {"unposted", "close", "done"} =>
          i \in completions \/ i \in taken
    /\ pc[i] \in {"guard", "slot", "close", "done"} =>
          tx[i] = "sent" \/ panicked(i)
    /\ tx[i] = "closed" => panicked(i)

(* A caller asked for a posted task and was told something true.           *)
AnswerTo(c) ==
    /\ caller[c].at \in {"waiting", "answered"} =>
          caller[c].id \in TaskId /\ pc[caller[c].id] # "unposted"
    /\ caller[c].at = "answered" =>
          /\ caller[c].result # None
          /\ LET i == caller[c].id
             IN  \/ caller[c].result = outcome[i]
                 \/ caller[c].result = Err("dropped") /\ panicked(i)
                 \/ /\ caller[c].result = Err("unknown task id")
                    /\ progress[i].state = "Absent" \/ i \in taken

Told == /\ \A i \in TaskId : EntryOf(i) /\ SlotOf(i)
        /\ \A c \in Callers : AnswerTo(c)

(* project_terminal and retained_outcome are inverse to each other: a      *)
(* caller that finds the slot gone reads what the handler returned.        *)
LEMMA RetainedIsReturned ==
    /\ \A e \in ProgressEntry, o \in TaskOutcome :
          /\ terminal(project_terminal(e, o))
          /\ retained_outcome(project_terminal(e, o)) = o
    /\ \A e \in ProgressEntry :
          /\ e.state = "Running" =>
                retained_outcome(panic_terminal(e)) = Err("task panicked")
          /\ e.state # "Running" => panic_terminal(e) = e
          /\ panic_terminal(e).state # "Running"
          /\ e.state \in {"Running", "Absent"} =>
                ~terminal(e) /\ retained_outcome(e) = Err("unknown task id")
          /\ e.state = "Absent" => panic_terminal(e).state = "Absent"
  <1>1. ASSUME NEW e \in ProgressEntry, NEW o \in TaskOutcome
        PROVE  /\ terminal(project_terminal(e, o))
               /\ retained_outcome(project_terminal(e, o)) = o
    <2> DEFINE g == (o = Ok("GhostFiles"))
               b == (o = Ok("BakeErrors"))
               f == [e EXCEPT !.state = IF o.ok THEN "Done" ELSE "Failed",
                              !.ghost_warning = g, !.bake_errors = b,
                              !.message = IF o.ok THEN "" ELSE o.text]
    <2>1. project_terminal(e, o) = f
      BY DEF project_terminal
    <2>2. /\ f.state = IF o.ok THEN "Done" ELSE "Failed"
          /\ f.ghost_warning = g /\ f.bake_errors = b
          /\ f.message = IF o.ok THEN "" ELSE o.text
      BY DEF ProgressEntry
    <2> HIDE DEF f
    <2>3. CASE o.ok
      <3>1. /\ o \in [ok : {TRUE}, text : {"plain", "GhostFiles", "BakeErrors"}]
            /\ Ok("plain") = [ok |-> TRUE, text |-> "plain"]
            /\ Ok("GhostFiles") = [ok |-> TRUE, text |-> "GhostFiles"]
            /\ Ok("BakeErrors") = [ok |-> TRUE, text |-> "BakeErrors"]
        BY <2>3 DEF TaskOutcome, Ok
      <3>2. o = Ok("plain") \/ o = Ok("GhostFiles") \/ o = Ok("BakeErrors")
        BY <3>1
      <3>3. /\ Ok("plain") # Ok("GhostFiles") /\ Ok("plain") # Ok("BakeErrors")
            /\ Ok("GhostFiles") # Ok("BakeErrors")
        BY DEF Ok
      <3>4. f.state = "Done"
        BY <2>2, <2>3
      <3>5. retained_outcome(f) = o
        BY <2>2, <3>2, <3>3, <3>4 DEF retained_outcome
      <3> QED BY <2>1, <3>4, <3>5 DEF terminal
    <2>4. CASE ~o.ok
      <3>1. o \in [ok : {FALSE}, text : Messages]
        BY <2>4 DEF TaskOutcome
      <3>2. o = Err(o.text)
        BY <3>1 DEF Err
      <3>3. f.state = "Failed" /\ f.message = o.text
        BY <2>2, <2>4
      <3>4. retained_outcome(f) = o
        BY <3>2, <3>3 DEF retained_outcome
      <3> QED BY <2>1, <3>3, <3>4 DEF terminal
    <2> QED BY <2>3, <2>4
  <1>2. ASSUME NEW e \in ProgressEntry
        PROVE  /\ e.state = "Running" =>
                     retained_outcome(panic_terminal(e)) = Err("task panicked")
               /\ e.state # "Running" => panic_terminal(e) = e
               /\ panic_terminal(e).state # "Running"
               /\ e.state \in {"Running", "Absent"} =>
                     ~terminal(e) /\ retained_outcome(e) = Err("unknown task id")
               /\ e.state = "Absent" => panic_terminal(e).state = "Absent"
    <2>1. CASE e.state = "Running"
      <3>1. /\ panic_terminal(e).state = "Failed"
            /\ panic_terminal(e).message = "task panicked"
        BY <2>1 DEF panic_terminal, ProgressEntry
      <3> QED BY <2>1, <3>1 DEF retained_outcome, terminal
    <2>2. CASE e.state # "Running"
      BY <2>2 DEF panic_terminal, retained_outcome, terminal
    <2> QED BY <2>1, <2>2
  <1> QED BY <1>1, <1>2

(* No task but i moves, ends, reports, is sent or loses its receiver.      *)
Alone(i) ==
    /\ \A j \in TaskId : j # i =>
          /\ pc'[j] = pc[j] /\ outcome'[j] = outcome[j]
          /\ progress'[j] = progress[j] /\ tx'[j] = tx[j]
          /\ j \in completions' <=> j \in completions
    /\ UNCHANGED <<caller, taken>>

(* The worker has told the truth as long as task i does not unsay it.      *)
LEMMA told_step ==
    ASSUME Told, NEW i \in TaskId, Alone(i), EntryOf(i)', SlotOf(i)',
           outcome'[i] = outcome[i] \/ outcome[i] = None,
           progress[i].state = "Absent" /\ pc[i] # "unposted" =>
              progress'[i].state = "Absent",
           pc[i] # "unposted" => pc'[i] # "unposted"
    PROVE  Told'
  <1>1. ASSUME NEW j \in TaskId, j # i
        PROVE  EntryOf(j)' /\ SlotOf(j)'
    <2>1. EntryOf(j) /\ SlotOf(j)
      BY DEF Told
    <2>2. EntryOf(j)'
      BY <1>1, <2>1 DEF Alone, EntryOf, panicked, terminal
    <2>3. SlotOf(j)'
      BY <1>1, <2>1 DEF Alone, SlotOf, panicked
    <2> QED BY <2>2, <2>3
  <1>2. ASSUME NEW c \in Callers
        PROVE  AnswerTo(c)'
    <2>1. AnswerTo(c) /\ caller' = caller /\ taken' = taken
      BY DEF Told, Alone
    <2>2. CASE caller[c].id = i
      <3>1. panicked(i) => panicked(i)' \/ outcome[i] = None
        BY DEF panicked
      <3> QED BY <2>1, <2>2, <3>1, OutcomeAssumption, OutcomeType DEF AnswerTo, panicked
    <2>3. CASE caller[c].id # i
      BY <2>1, <2>3 DEF AnswerTo, Alone, panicked
    <2> QED BY <2>2, <2>3
  <1> QED BY <1>1, <1>2 DEF Told

(* What is known of a future before it takes a step. *)
LEMMA FutureFacts ==
    ASSUME IInv, Tidy, Told, NEW i \in TaskId
    PROVE  /\ EntryOf(i) /\ SlotOf(i)
           /\ pc[i] \in Starting \cup {"unposted"} => outcome[i] = None /\ ~panicked(i)
           /\ pc[i] \in {"posting", "record", "prune"} => ~panicked(i)
           /\ pc \in [TaskId -> Locations] /\ outcome \in [TaskId -> TaskOutcome \cup {None}]
           /\ progress \in [TaskId -> ProgressEntry] /\ progress[i] \in ProgressEntry
           /\ tx \in [TaskId -> {"open", "sent", "closed"}]
  <1>1. pc[i] \in Starting \cup {"unposted"} => outcome[i] = None /\ ~panicked(i)
    <2>1. pc[i] \in Starting \cup {"unposted"} => outcome[i] = None
      BY DEF Tidy, NotEnded
    <2> QED BY <2>1, OutcomeAssumption, OutcomeType DEF panicked
  <1> QED BY <1>1 DEF Told, IInv, TypeOK, HappyPath

(* The steps that tell nobody anything: only the pc moves.                 *)
LEMMA silent_told ==
    ASSUME IInv, Tidy, Told, NEW i \in TaskId,
           \/ persist_task_start(i) \/ clone_resource_lock(i) \/ lock_owned(i)
           \/ acquire_permit(i) \/ permit_granted(i) \/ record_completion(i)
           \/ unlock(i) \/ drop_arc(i) \/ prune_resource_lock(i)
           \/ release_permit(i) \/ persist_task_finish(i)
    PROVE  Told'
  <1>1. UNCHANGED <<outcome, progress, completions, tx, caller, taken>>
    BY DEF persist_task_start, clone_resource_lock, lock_owned, acquire_permit,
           permit_granted, record_completion, unlock, drop_arc,
           prune_resource_lock, release_permit, persist_task_finish, ledger, slots
  <1>2. PICK l \in {"entry", "lock", "queued", "permit", "running", "unlock",
                    "drop_arc", "guard", "prune", "release", "finish", "send"} :
           /\ pc' = [pc EXCEPT ![i] = l]
           /\ \/ pc[i] \in Starting /\ l \in Starting
              \/ /\ pc[i] \in {"record", "prune", "finish"}
                 /\ l \in {"unlock", "release", "send"}
              \/ pc[i] = "unlock" /\ l = "drop_arc"
              \/ pc[i] \in {"drop_arc", "release"} /\ panicked(i) /\ l \in {"guard", "unlock"}
              \/ pc[i] \in {"drop_arc", "release"} /\ ~panicked(i) /\ l \in {"prune", "finish"}
    <2>1. CASE \/ persist_task_start(i) \/ clone_resource_lock(i) \/ lock_owned(i)
               \/ acquire_permit(i) \/ permit_granted(i)
      BY <2>1 DEF persist_task_start, clone_resource_lock, lock_owned,
                  acquire_permit, permit_granted, goto, Starting
    <2>2. CASE record_completion(i) \/ prune_resource_lock(i) \/ persist_task_finish(i)
      BY <2>2 DEF record_completion, prune_resource_lock, persist_task_finish, goto
    <2>3. CASE unlock(i)
      BY <2>3 DEF unlock, goto
    <2>4. CASE drop_arc(i) \/ release_permit(i)
      BY <2>4 DEF drop_arc, release_permit, goto
    <2> QED BY <2>1, <2>2, <2>3, <2>4
  <1>3. pc'[i] = l /\ Alone(i) /\ panicked(i)' = panicked(i)
    BY <1>1, <1>2, FutureFacts DEF Alone, panicked
  <1>4. EntryOf(i)'
    BY <1>1, <1>2, <1>3, FutureFacts DEF EntryOf, Starting, terminal
  <1>5. SlotOf(i)'
    BY <1>1, <1>2, <1>3, FutureFacts DEF SlotOf, Starting
  <1> QED BY <1>1, <1>3, <1>4, <1>5, told_step

(* A handler that returns or panics leaves its entry running.              *)
LEMMA handler_told ==
    ASSUME IInv, Tidy, Told, NEW i \in TaskId, execute(i) \/ panic(i)
    PROVE  Told'
  <1>1. /\ pc[i] = "running"
        /\ UNCHANGED <<progress, completions, tx, caller, taken>>
    BY DEF execute, panic, ledger, slots
  <1>2. PICK o \in TaskOutcome :
           /\ outcome' = [outcome EXCEPT ![i] = o]
           /\ \/ pc' = [pc EXCEPT ![i] = "posting"]
              \/ pc' = [pc EXCEPT ![i] = "release"] /\ o = Err("task panicked")
    <2>1. tasks[i] \in Task
      BY <1>1, TaskThere
    <2> QED BY <2>1, OutcomeType DEF execute, panic, goto
  <1>3. /\ Alone(i) /\ outcome'[i] = o /\ outcome[i] = None
        /\ pc'[i] = "posting" \/ (pc'[i] = "release" /\ panicked(i)')
    BY <1>1, <1>2, FutureFacts DEF Alone, panicked, Starting
  <1>4. progress[i].state = "Running" /\ ~terminal(progress[i])
    BY <1>1, FutureFacts DEF EntryOf, Starting, terminal
  <1>5. EntryOf(i)'
    BY <1>1, <1>3, <1>4 DEF EntryOf, Starting, terminal
  <1>6. SlotOf(i)'
    BY <1>1, <1>3, FutureFacts DEF SlotOf, Starting
  <1> QED BY <1>1, <1>3, <1>4, <1>5, <1>6, told_step

(* The terminal entry is the outcome; the guard adds only a panic.         *)
LEMMA entry_told ==
    ASSUME IInv, Tidy, Told, NEW i \in TaskId,
           write_terminal_progress(i) \/ drop_progress_guard(i)
    PROVE  Told'
  <1>1. UNCHANGED <<outcome, completions, tx, caller, taken>>
    BY DEF write_terminal_progress, drop_progress_guard, slots
  <1>2. CASE write_terminal_progress(i)
    <2>1. /\ pc[i] = "posting" /\ pc' = [pc EXCEPT ![i] = "record"]
          /\ progress' = [progress EXCEPT ![i] = project_terminal(progress[i], outcome[i])]
      BY <1>2, FutureFacts DEF write_terminal_progress, goto
    <2>2. outcome[i] \in TaskOutcome /\ outcome[i] # None
      BY <2>1, OutcomeAssumption DEF IInv, HasOutcome
    <2>3. /\ Alone(i) /\ pc'[i] = "record"
          /\ progress'[i] = project_terminal(progress[i], outcome[i])
          /\ progress[i].state = "Running"
      BY <1>1, <2>1, FutureFacts DEF Alone, EntryOf
    <2>4. terminal(progress'[i]) /\ retained_outcome(progress'[i]) = outcome[i]
      <3>1. progress[i] \in ProgressEntry
        BY FutureFacts
      <3>2. /\ terminal(project_terminal(progress[i], outcome[i]))
            /\ retained_outcome(project_terminal(progress[i], outcome[i])) = outcome[i]
        BY <2>2, <3>1, RetainedIsReturned
      <3> QED BY <2>3, <3>2
    <2>5. EntryOf(i)'
      BY <1>1, <2>2, <2>3, <2>4 DEF EntryOf, Starting, terminal
    <2>6. SlotOf(i)'
      BY <1>1, <2>1, <2>3, FutureFacts DEF SlotOf, panicked
    <2> QED BY <1>1, <2>3, <2>5, <2>6, told_step
  <1>3. CASE drop_progress_guard(i)
    <2>1. /\ pc[i] = "guard" /\ pc' = [pc EXCEPT ![i] = "slot"]
          /\ progress' = [progress EXCEPT ![i] = panic_terminal(progress[i])]
      BY <1>3, FutureFacts DEF drop_progress_guard, goto
    <2>2. outcome[i] \in TaskOutcome /\ outcome[i] # None
      BY <2>1, OutcomeAssumption DEF IInv, HasOutcome
    <2>3. /\ Alone(i) /\ pc'[i] = "slot"
          /\ progress'[i] = panic_terminal(progress[i])
      BY <1>1, <2>1, FutureFacts DEF Alone
    <2>4. progress[i].state = "Running" => outcome[i] = Err("task panicked")
      BY <2>1, FutureFacts DEF EntryOf, Starting, panicked
    <2>5. /\ progress'[i].state # "Running"
          /\ terminal(progress'[i]) => retained_outcome(progress'[i]) = outcome[i]
          /\ progress[i].state = "Absent" => progress'[i].state = "Absent"
      <3>1. progress[i] \in ProgressEntry /\ EntryOf(i)
        BY FutureFacts
      <3> DEFINE e == progress[i]
      <3>2. /\ e.state = "Running" =>
                  retained_outcome(panic_terminal(e)) = Err("task panicked")
            /\ e.state # "Running" => panic_terminal(e) = e
            /\ panic_terminal(e).state # "Running"
            /\ e.state = "Absent" => panic_terminal(e).state = "Absent"
        BY <3>1, RetainedIsReturned
      <3> QED BY <2>3, <2>4, <3>1, <3>2 DEF EntryOf
    <2>6. EntryOf(i)'
      BY <1>1, <2>2, <2>3, <2>5 DEF EntryOf, Starting
    <2>7. SlotOf(i)'
      BY <1>1, <2>1, <2>3, FutureFacts DEF SlotOf, panicked
    <2> QED BY <1>1, <2>3, <2>5, <2>6, <2>7, told_step
  <1> QED BY <1>2, <1>3

(* Sending, reclaiming the slot and closing the channel.                   *)
LEMMA channel_told ==
    ASSUME IInv, Tidy, Told, NEW i \in TaskId,
           send_outcome(i) \/ drop_prune_guard(i) \/ drop_sender(i)
    PROVE  Told'
  <1>1. UNCHANGED <<outcome, progress, caller, taken>>
    BY DEF send_outcome, drop_prune_guard, drop_sender, ledger
  <1>2. \/ /\ pc[i] = "send" /\ pc' = [pc EXCEPT ![i] = "guard"]
           /\ tx' = [tx EXCEPT ![i] = "sent"] /\ completions' = completions
        \/ /\ pc[i] = "slot" /\ pc' = [pc EXCEPT ![i] = "close"]
           /\ tx' = tx /\ completions' = completions \ {i}
        \/ /\ pc[i] = "close" /\ pc' = [pc EXCEPT ![i] = "done"]
           /\ tx' = [tx EXCEPT ![i] = IF tx[i] = "open" THEN "closed" ELSE tx[i]]
           /\ completions' = completions
    BY FutureFacts DEF send_outcome, drop_prune_guard, drop_sender, goto
  <1>3. Alone(i) /\ panicked(i)' = panicked(i)
    BY <1>1, <1>2, FutureFacts DEF Alone, panicked
  <1>4. EntryOf(i)'
    BY <1>1, <1>2, <1>3, FutureFacts DEF EntryOf, Starting, terminal
  <1>5. SlotOf(i)'
    BY <1>1, <1>2, <1>3, FutureFacts DEF SlotOf
  <1>6. pc'[i] # "unposted"
    BY <1>2, FutureFacts
  <1> QED BY <1>1, <1>3, <1>4, <1>5, <1>6, told_step

(* A new task has a slot and a running entry, and nobody asked for it yet. *)
LEMMA post_told ==
    ASSUME IInv, Tidy, Told, NEW t \in Task, post(t),
           UNCHANGED <<outcome, tx, caller, taken>>
    PROVE  Told'
  <1>1. PICK n \in TaskId : n = next_id
    BY DEF post
  <1>2. /\ pc' = [pc EXCEPT ![n] = "start"]
        /\ completions' = completions \cup {n}
        /\ progress' = [progress EXCEPT ![n] = seed_progress_entry]
    BY <1>1 DEF post, goto
  <1>3. pc[n] = "unposted"
    BY <1>1, BoundsAssumption DEF IInv, Posted, TaskId
  <1>4. /\ Alone(n) /\ pc'[n] = "start" /\ progress'[n] = seed_progress_entry
        /\ n \in completions'
    BY <1>2, FutureFacts DEF Alone
  <1>5. EntryOf(n)'
    <2>1. seed_progress_entry.state = "Running"
      BY DEF seed_progress_entry
    <2> QED BY <1>4, <2>1 DEF EntryOf, Starting, terminal
  <1>6. SlotOf(n)'
    BY <1>3, <1>4, FutureFacts DEF SlotOf
  <1> QED BY <1>3, <1>4, <1>5, <1>6, told_step

(* A follow-up is a post by a task that stays where it is.                 *)
LEMMA post_follow_up_told ==
    ASSUME IInv, Tidy, Told, NEW i \in TaskId, post_follow_up(i)
    PROVE  Told'
  <1> DEFINE v == pending_follow_ups(i)[posts[i] + 1]
             t == [variant |-> v, arg |-> tasks[i].arg]
  <1>1. pc[i] = "posting" /\ UNCHANGED <<outcome, tx, caller, taken>>
    BY DEF post_follow_up
  <1>2. tasks[i] \in Task
    BY <1>1, TaskThere
  <1>3. CASE v \in Variants /\ post(t)
    <2>1. t \in Task
      BY <1>2, <1>3 DEF Task
    <2> HIDE DEF t, v
    <2> QED BY <1>1, <1>3, <2>1, post_told
  <1>4. CASE UNCHANGED <<next_id, tasks, pc, completions, progress>>
    <2> HIDE DEF t, v
    <2>1. Alone(i)
      BY <1>1, <1>4 DEF Alone
    <2>2. EntryOf(i)' /\ SlotOf(i)'
      BY <1>1, <1>4, FutureFacts DEF EntryOf, SlotOf, panicked, terminal
    <2> QED BY <1>1, <1>4, <2>1, <2>2, told_step
  <1> QED BY <1>3, <1>4 DEF post_follow_up

(* A report and an owner change no state, warning or message of an entry.  *)
LEMMA report_told ==
    ASSUME IInv, Tidy, Told, NEW i \in TaskId,
           report_progress_update(i) \/ \E u \in Users : set_task_owner(i, u)
    PROVE  Told'
  <1>1. UNCHANGED <<pc, outcome, completions, tx, caller, taken>>
    BY DEF report_progress_update, set_task_owner, future, slots
  <1>2. PICK e : /\ progress' = [progress EXCEPT ![i] = e]
                 /\ \/ \E p : e = [progress[i] EXCEPT !.processed = p]
                    \/ \E u : e = [progress[i] EXCEPT !.owner = u]
    <2>1. CASE report_progress_update(i)
      <3>1. progress' = [progress EXCEPT ![i] =
                           [progress[i] EXCEPT !.processed = progress[i].processed + 1]]
        BY <2>1, FutureFacts DEF report_progress_update
      <3> QED BY <3>1
    <2>2. CASE \E u \in Users : set_task_owner(i, u)
      <3>1. PICK u \in Users : set_task_owner(i, u)
        BY <2>2
      <3>2. progress' = [progress EXCEPT ![i] = [progress[i] EXCEPT !.owner = u]]
        BY <3>1, FutureFacts DEF set_task_owner
      <3> QED BY <3>2
    <2> QED BY <2>1, <2>2
  <1>3. progress'[i] = e /\ Alone(i)
    BY <1>1, <1>2, FutureFacts DEF Alone
  <1>4. /\ e.state = progress[i].state /\ e.message = progress[i].message
        /\ e.ghost_warning = progress[i].ghost_warning
        /\ e.bake_errors = progress[i].bake_errors
    <2>1. progress[i] \in ProgressEntry
      BY FutureFacts
    <2> QED BY <1>2, <2>1 DEF ProgressEntry
  <1>5. /\ terminal(e) = terminal(progress[i])
        /\ retained_outcome(e) = retained_outcome(progress[i])
    BY <1>4 DEF terminal, retained_outcome
  <1>6. EntryOf(i)'
    BY <1>1, <1>3, <1>4, <1>5, FutureFacts DEF EntryOf, panicked
  <1>7. SlotOf(i)'
    BY <1>1, FutureFacts DEF SlotOf, panicked
  <1> QED BY <1>1, <1>3, <1>4, <1>6, <1>7, told_step

(* Eviction takes terminal entries only.                                   *)
LEMMA snapshot_told ==
    ASSUME IInv, Tidy, Told, NEW p \in Pollers, snapshot(p)
    PROVE  Told'
  <1>1. PICK expired \in SUBSET {i \in TaskId : terminal(progress[i])} :
           progress' = [i \in TaskId |->
                           IF i \in expired THEN Absent ELSE progress[i]]
    BY DEF snapshot
  <1>2. UNCHANGED <<pc, outcome, completions, tx, caller, taken>>
    BY DEF snapshot, future, slots
  <1>3. ASSUME NEW i \in TaskId
        PROVE  \/ progress'[i] = progress[i]
               \/ terminal(progress[i]) /\ progress'[i] = Absent
    BY <1>1
  <1>4. ASSUME NEW i \in TaskId
        PROVE  EntryOf(i)' /\ SlotOf(i)'
    <2>1. EntryOf(i)'
      <3>1. EntryOf(i) /\ Absent.state = "Absent"
        BY FutureFacts DEF Absent
      <3>2. CASE progress'[i] = progress[i]
        BY <1>2, <3>1, <3>2 DEF EntryOf, panicked, terminal
      <3>3. CASE terminal(progress[i]) /\ progress'[i] = Absent
        BY <1>2, <3>1, <3>3 DEF EntryOf, panicked, terminal
      <3> QED BY <1>3, <3>2, <3>3
    <2>2. SlotOf(i)'
      BY <1>2, FutureFacts DEF SlotOf, panicked
    <2> QED BY <2>1, <2>2
  <1>5. ASSUME NEW c \in Callers
        PROVE  AnswerTo(c)'
    <2>1. AnswerTo(c)
      BY DEF Told
    <2>2. caller[c].id \in TaskId /\ progress[caller[c].id].state = "Absent" =>
             progress'[caller[c].id].state = "Absent"
      <3>1. Absent.state = "Absent"
        BY DEF Absent
      <3> QED BY <1>3, <3>1
    <2> QED BY <1>2, <2>1, <2>2 DEF AnswerTo, panicked
  <1> QED BY <1>4, <1>5 DEF Told

(* A true answer about a posted task.                                      *)
LEMMA answer_told ==
    ASSUME IInv, Tidy, Told, NEW c \in Callers, NEW i \in TaskId, NEW o \in TaskOutcome,
           answer(c, i, o), UNCHANGED <<future, ledger, completions, tx, taken>>,
           pc[i] # "unposted",
           \/ o = outcome[i]
           \/ o = Err("dropped") /\ panicked(i)
           \/ /\ o = Err("unknown task id")
              /\ progress[i].state = "Absent" \/ i \in taken
    PROVE  Told'
  <1>1. UNCHANGED <<pc, outcome, progress, completions, tx, taken>>
    BY DEF future, ledger
  <1>2. caller \in [Callers -> Call]
    BY DEF IInv, TypeOK, Call
  <1>3. /\ caller'[c].at = "answered" /\ caller'[c].id = i /\ caller'[c].result = o
        /\ \A d \in Callers : d # c => caller'[d] = caller[d]
    BY <1>2 DEF answer
  <1>4. ASSUME NEW j \in TaskId
        PROVE  EntryOf(j)' /\ SlotOf(j)'
    BY <1>1, FutureFacts DEF EntryOf, SlotOf, panicked
  <1>5. ASSUME NEW d \in Callers
        PROVE  AnswerTo(d)'
    <2>1. AnswerTo(d)
      BY DEF Told
    <2>2. CASE d = c
      BY <1>1, <1>3, <2>2, OutcomeAssumption DEF AnswerTo, panicked
    <2>3. CASE d # c
      BY <1>1, <1>3, <2>1, <2>3 DEF AnswerTo, panicked
    <2> QED BY <2>2, <2>3
  <1> QED BY <1>4, <1>5 DEF Told

(* await_completion takes the receiver, or reads the retained entry: for a *)
(* posted task whose slot is gone that is its outcome, unless the entry    *)
(* was evicted or another caller has the receiver.                         *)
LEMMA await_told ==
    ASSUME IInv, Tidy, Told, NEW c \in Callers, NEW i \in TaskId,
           await_completion(c, i)
    PROVE  Told'
  <1>1. UNCHANGED <<future, locks, ledger, tx>> /\ pc[i] # "unposted"
    BY DEF await_completion
  <1>2. CASE /\ i \notin completions
             /\ answer(c, i, retained_outcome(progress[i]))
             /\ UNCHANGED <<completions, taken>>
    <2>1. progress[i] \in ProgressEntry /\ EntryOf(i) /\ SlotOf(i)
      BY FutureFacts
    <2>2. retained_outcome(progress[i]) \in TaskOutcome
      BY <2>1, RetainedType
    <2>3. CASE terminal(progress[i])
      <3>1. retained_outcome(progress[i]) = outcome[i]
        BY <2>1, <2>3 DEF EntryOf
      <3> QED BY <1>1, <1>2, <2>2, <3>1, answer_told
    <2>4. CASE ~terminal(progress[i])
      <3>1. progress[i].state \in {"Running", "Absent"}
        BY <2>1, <2>4 DEF ProgressEntry, terminal
      <3>2. retained_outcome(progress[i]) = Err("unknown task id")
        BY <2>1, <3>1, RetainedIsReturned
      <3>3. progress[i].state = "Absent" \/ i \in taken
        BY <1>1, <1>2, <2>1, <3>1 DEF EntryOf, SlotOf, Starting
      <3> QED BY <1>1, <1>2, <2>2, <3>2, <3>3, answer_told
    <2> QED BY <2>3, <2>4
  <1>3. CASE /\ completions' = completions \ {i}
             /\ taken' = taken \cup {i}
             /\ caller' = [caller EXCEPT ![c].at = "waiting", ![c].id = i]
    <2>1. UNCHANGED <<pc, outcome, progress, tx>>
      BY <1>1 DEF future, ledger
    <2>2. caller \in [Callers -> Call]
      BY DEF IInv, TypeOK, Call
    <2>3. /\ caller'[c].at = "waiting" /\ caller'[c].id = i
          /\ \A d \in Callers : d # c => caller'[d] = caller[d]
      BY <1>3, <2>2 DEF Call
    <2>4. ASSUME NEW j \in TaskId
          PROVE  EntryOf(j)' /\ SlotOf(j)'
      BY <1>3, <2>1, FutureFacts DEF EntryOf, SlotOf, panicked
    <2>5. ASSUME NEW d \in Callers
          PROVE  AnswerTo(d)'
      <3>1. AnswerTo(d)
        BY DEF Told
      <3>2. CASE d = c
        BY <1>1, <2>1, <2>3, <3>2 DEF AnswerTo
      <3>3. CASE d # c
        <4>1. caller'[d] = caller[d] /\ taken \subseteq taken'
          BY <1>3, <2>3, <3>3
        <4> QED BY <2>1, <3>1, <4>1 DEF AnswerTo, panicked
      <3> QED BY <3>2, <3>3
    <2> QED BY <2>4, <2>5 DEF Told
  <1> QED BY <1>2, <1>3 DEF await_completion

(* What arrives on the channel is the outcome, and only a panic closes it. *)
LEMMA observe_told ==
    ASSUME IInv, Tidy, Told, NEW c \in Callers, observe(c)
    PROVE  Told'
  <1>1. /\ caller[c].at = "waiting"
        /\ UNCHANGED <<future, locks, ledger, completions, tx, taken>>
        /\ \/ tx[caller[c].id] = "sent"
              /\ answer(c, caller[c].id, outcome[caller[c].id])
           \/ tx[caller[c].id] = "closed"
              /\ answer(c, caller[c].id, Err("dropped"))
    BY DEF observe
  <1>2. PICK i \in TaskId : i = caller[c].id /\ pc[i] # "unposted"
    BY <1>1 DEF Told, AnswerTo
  <1>3. Err("dropped") \in TaskOutcome
    BY DEF Err, TaskOutcome, Messages
  <1>4. tx[i] = "sent" => outcome[i] \in TaskOutcome
    BY DEF IInv, Channels
  <1>5. tx[i] = "closed" => panicked(i)
    BY FutureFacts DEF SlotOf
  <1>6. CASE tx[i] = "sent" /\ answer(c, i, outcome[i])
    BY <1>1, <1>2, <1>4, <1>6, answer_told
  <1>7. CASE tx[i] = "closed" /\ answer(c, i, Err("dropped"))
    BY <1>1, <1>2, <1>3, <1>5, <1>7, answer_told
  <1> QED BY <1>1, <1>2, <1>6, <1>7

(* A caller that gave up is told nothing.                                  *)
LEMMA time_out_told ==
    ASSUME IInv, Tidy, Told, NEW c \in Callers, time_out(c)
    PROVE  Told'
  <1>1. /\ UNCHANGED <<pc, outcome, progress, completions, tx, taken>>
        /\ caller' = [caller EXCEPT ![c].at = "timed out"]
    BY DEF time_out, future, ledger
  <1>2. caller \in [Callers -> Call]
    BY DEF IInv, TypeOK, Call
  <1>3. /\ caller'[c].at = "timed out"
        /\ \A d \in Callers : d # c => caller'[d] = caller[d]
    BY <1>1, <1>2 DEF Call
  <1>4. ASSUME NEW j \in TaskId
        PROVE  EntryOf(j)' /\ SlotOf(j)'
    BY <1>1, FutureFacts DEF EntryOf, SlotOf, panicked
  <1>5. ASSUME NEW d \in Callers
        PROVE  AnswerTo(d)'
    <2>1. AnswerTo(d)
      BY DEF Told
    <2>2. CASE d = c
      BY <1>3, <2>2 DEF AnswerTo
    <2>3. CASE d # c
      <3>1. /\ caller'[d] = caller[d]
            /\ UNCHANGED <<pc, outcome, progress, taken>>
        BY <1>1, <1>3, <2>3
      <3> QED BY <2>1, <3>1 DEF AnswerTo, panicked
    <2> QED BY <2>2, <2>3
  <1> QED BY <1>4, <1>5 DEF Told

(* Nothing untrue is told in any step.                                     *)
LEMMA ToldStep == IInv /\ Tidy /\ Told /\ [Next]_vars => Told'
  <1> SUFFICES ASSUME IInv, Tidy, Told, [Next]_vars PROVE Told'
    OBVIOUS
  <1>1. ASSUME NEW i \in TaskId, FutureStep(i) PROVE Told'
    BY <1>1, silent_told, handler_told, entry_told, channel_told,
       post_follow_up_told DEF FutureStep
  <1>2. CASE PostRoot
    <2>1. PICK t \in Roots : post(t)
      BY <1>2 DEF PostRoot
    <2>2. t \in Task /\ UNCHANGED <<outcome, tx, caller, taken>>
      BY <1>2, TaskAssumption DEF PostRoot
    <2> QED BY <2>1, <2>2, post_told
  <1>3. ASSUME UNCHANGED vars PROVE Told'
    <2>1. UNCHANGED <<pc, outcome, progress, completions, tx, taken, caller>>
      BY <1>3 DEF vars, future, ledger, slots
    <2>2. ASSUME NEW j \in TaskId
          PROVE  EntryOf(j)' /\ SlotOf(j)'
      BY <2>1, FutureFacts DEF EntryOf, SlotOf, panicked
    <2>3. ASSUME NEW d \in Callers
          PROVE  AnswerTo(d)'
      BY <2>1 DEF Told, AnswerTo, panicked
    <2> QED BY <2>2, <2>3 DEF Told
  <1>4. CASE Quiescent
    BY <1>3, <1>4 DEF Quiescent
  <1>5. ASSUME NEW i \in TaskId,
               \/ report_progress_update(i)
               \/ \E u \in Users : set_task_owner(i, u)
               \/ \E c \in Callers : await_completion(c, i)
        PROVE  Told'
    BY <1>5, report_told, await_told
  <1>6. ASSUME NEW c \in Callers, observe(c) \/ time_out(c) PROVE Told'
    BY <1>6, observe_told, time_out_told
  <1>7. ASSUME NEW p \in Pollers, snapshot(p) PROVE Told'
    BY <1>7, snapshot_told
  <1> QED BY <1>1, <1>2, <1>3, <1>4, <1>5, <1>6, <1>7 DEF Next

(* In every reachable state locks, permits and futures are in order, and   *)
(* nothing untrue was told.                                                *)
THEOREM Order == Spec => [](IInv /\ Tidy /\ Told)
  <1>1. Init => Tidy /\ Told
    <2> SUFFICES ASSUME Init PROVE Tidy /\ Told
      OBVIOUS
    <2>1. NotEnded
      BY DEF Init, NotEnded
    <2>2. Permits
      <3>1. PermitsHeld /\ PermitsWaited /\ PermitsTaken
        BY DEF Init, PermitsHeld, PermitsWaited, PermitsTaken, HasPermit
      <3>2. PermitsBounded
        BY FS_EmptySet, CapacityAssumption DEF Init, PermitsBounded
      <3> QED BY <3>1, <3>2 DEF Permits
    <2>3. Queues /\ Mutexes
      BY DEF Init, Queues, Mutexes
    <2>4. ASSUME NEW i \in TaskId
          PROVE  EntryOf(i) /\ SlotOf(i)
      <3>1. /\ pc[i] = "unposted" /\ progress[i] = Absent /\ tx[i] = "open"
            /\ completions = {}
        BY DEF Init
      <3>2. Absent.state = "Absent"
        BY DEF Absent
      <3> QED BY <3>1, <3>2 DEF EntryOf, SlotOf, Starting, terminal
    <2>5. ASSUME NEW c \in Callers
          PROVE  AnswerTo(c)
      BY DEF Init, AnswerTo
    <2> QED BY <2>1, <2>2, <2>3, <2>4, <2>5 DEF Tidy, Told
  <1>2. IInv /\ Tidy /\ Told /\ [Next]_vars => (Tidy /\ Told)'
    BY TidyStep, ToldStep
  <1> QED BY <1>1, <1>2, Invariance, PTL DEF Spec

(* Whatever await_completion answers is true: the handler's outcome with   *)
(* its details, "dropped" for a panic, "unknown" only when the entry was   *)
(* evicted or the receiver taken (exec.rs, types.rs).                      *)
THEOREM AnswersAreTrue == Spec => []AnswersTruthful
  <1>1. Told => AnswersTruthful
    BY DEF Told, AnswerTo, AnswersTruthful
  <1> QED BY <1>1, Order, PTL

(* A task that is gone left nothing behind in the worker, and the lock map *)
(* does not grow (queue.rs prune_resource_lock and the guards).            *)
THEOREM NothingIsLeft == Spec => []NothingLeftBehind
  <1>1. IInv /\ Tidy /\ Told => NothingLeftBehind
    <2> SUFFICES ASSUME IInv, Tidy, Told PROVE NothingLeftBehind
      OBVIOUS
    <2>1. ASSUME NEW i \in TaskId, pc[i] = "done"
          PROVE  /\ i \notin completions
                 /\ progress[i].state # "Running"
                 /\ arc[i] = None
                 /\ \A s \in Semaphores : i \notin permits[s]
                 /\ \A m \in TaskId : \A n \in 1 .. Len(queue[m]) : queue[m][n] # i
      <3>1. ~HasClone(i) /\ ~HasLock(i) /\ ~HasPermit(i)
        BY <2>1 DEF HasClone, HasLock, HasPermit
      <3>2. i \notin completions /\ progress[i].state # "Running"
        BY <2>1, FutureFacts DEF EntryOf, SlotOf, Starting
      <3>3. arc[i] = None
        BY <3>1 DEF IInv, ClonesInMap
      <3>4. \A s \in Semaphores : i \notin permits[s]
        BY <2>1, <3>1 DEF Tidy, Permits, PermitsHeld
      <3>5. \A m \in TaskId : \A n \in 1 .. Len(queue[m]) : queue[m][n] # i
        BY <2>1, <3>1 DEF Tidy, Queues
      <3> QED BY <3>2, <3>3, <3>4, <3>5
    <2>2. ASSUME NEW k \in Keys, resource_locks[k] # None
          PROVE  \/ \E i \in TaskId : arc[i] = resource_locks[k]
                 \/ \E i \in TaskId : /\ tasks[i] # None /\ key(i) = k
                                      /\ pc[i] = "prune" \/ panicked(i)
      BY <2>2 DEF Tidy, Mutexes, reclaims
    <2> QED BY <2>1, <2>2 DEF NothingLeftBehind
  <1> QED BY <1>1, Order, PTL

-----------------------------------------------------------------------------
(* The worker implements a keyed executor.                                 *)

(* What the executor sees of every task but i stays. *)
SeenOf(i) ==
    \A j \in TaskId : j # i =>
        /\ jobOf(j)' = jobOf(j) /\ phaseOf(j)' = phaseOf(j)
        /\ resultOf(j)' = resultOf(j)

(* A step that changes nothing the executor sees is a stutter of it.       *)
LEMMA seen_stutter ==
    ASSUME NEW i \in TaskId, SeenOf(i), jobOf(i)' = jobOf(i),
           phaseOf(i)' = phaseOf(i), resultOf(i)' = resultOf(i)
    PROVE  UNCHANGED Executor!vars
  <1>1. ASSUME NEW j \in TaskId
        PROVE  /\ jobOf(j)' = jobOf(j) /\ phaseOf(j)' = phaseOf(j)
               /\ resultOf(j)' = resultOf(j)
    BY DEF SeenOf
  <1> QED BY <1>1 DEF Executor!vars

(* A new job, as the executor sees it. *)
LEMMA seen_post ==
    ASSUME NEW i \in TaskId, SeenOf(i), phaseOf(i) = "absent",
           phaseOf(i)' = "queued", jobOf(i)' \in Executor!Job,
           resultOf(i)' = resultOf(i)
    PROVE  Executor!Post(i)
  <1>1. ASSUME NEW j \in TaskId, j # i
        PROVE  /\ jobOf(j)' = jobOf(j) /\ phaseOf(j)' = phaseOf(j)
               /\ resultOf(j)' = resultOf(j)
    BY <1>1 DEF SeenOf
  <1> QED BY <1>1 DEF Executor!Post

(* Cardinality means the same in both modules. *)
LEMMA SameCardinality == \A S : Executor!Cardinality(S) = Cardinality(S)
  BY DEF Cardinality, Executor!Cardinality

(* A job that starts, as the executor sees it. *)
LEMMA seen_start ==
    ASSUME NEW i \in TaskId, SeenOf(i), phaseOf(i) = "queued",
           phaseOf(i)' = "running", jobOf(i)' = jobOf(i),
           resultOf(i)' = resultOf(i),
           \A j \in TaskId : phaseOf(j) = "running" => jobOf(j).key # jobOf(i).key,
           \/ jobOf(i).class = None
           \/ Cardinality({j \in TaskId : /\ phaseOf(j) = "running"
                                          /\ jobOf(j).class = jobOf(i).class})
                 < Capacity[jobOf(i).class]
    PROVE  Executor!Start(i)
  <1>1. ASSUME NEW j \in TaskId
        PROVE  /\ jobOf(j)' = jobOf(j)
               /\ j # i => phaseOf(j)' = phaseOf(j)
               /\ resultOf(j)' = resultOf(j)
    BY DEF SeenOf
  <1> DEFINE job == [j \in TaskId |-> jobOf(j)]
             phase == [j \in TaskId |-> phaseOf(j)]
  <1>2. Executor!Running(job[i].class) =
           {j \in TaskId : phaseOf(j) = "running" /\ jobOf(j).class = jobOf(i).class}
    BY DEF Executor!Running
  <1>3. \/ job[i].class = None
        \/ Cardinality(Executor!Running(job[i].class)) < Capacity[job[i].class]
    BY <1>2
  <1>4. \/ job[i].class = None
        \/ Executor!Cardinality(Executor!Running(job[i].class)) < Capacity[job[i].class]
    BY <1>3, SameCardinality
  <1>5. phase[i] = "queued"
    OBVIOUS
  <1>6. \A j \in TaskId : phase[j] = "running" => job[j].key # job[i].key
    OBVIOUS
  <1>7. phase' = [phase EXCEPT ![i] = "running"]
    BY <1>1
  <1>8. UNCHANGED <<job, [j \in TaskId |-> resultOf(j)]>>
    BY <1>1
  <1> QED BY <1>4, <1>5, <1>6, <1>7, <1>8, Zenon DEF Executor!Start

(* A job that ends, as the executor sees it. *)
LEMMA seen_end ==
    ASSUME NEW i \in TaskId, SeenOf(i), phaseOf(i) = "running",
           phaseOf(i)' = "ended", jobOf(i)' = jobOf(i),
           resultOf(i)' \in TaskOutcome
    PROVE  Executor!End(i)
  <1>1. ASSUME NEW j \in TaskId
        PROVE  /\ jobOf(j)' = jobOf(j)
               /\ j # i => phaseOf(j)' = phaseOf(j) /\ resultOf(j)' = resultOf(j)
    BY DEF SeenOf
  <1> QED BY <1>1 DEF Executor!End

(* A step of one future is seen of no other. *)
LEMMA OnlySeen ==
    ASSUME NEW i \in TaskId, Only(i)
    PROVE  SeenOf(i) /\ jobOf(i)' = jobOf(i)
  BY DEF Only, SeenOf, jobOf, phaseOf, resultOf, key

(* The steps between the events an executor has: before the handler,       *)
(* inside it, after it.                                                    *)
LEMMA refine_silent ==
    ASSUME IInv, Tidy, NEW i \in TaskId,
           \/ persist_task_start(i) \/ clone_resource_lock(i) \/ lock_owned(i)
           \/ acquire_permit(i) /\ pc'[i] = "permit"
           \/ execute(i) \/ record_completion(i) \/ unlock(i) \/ drop_arc(i)
           \/ prune_resource_lock(i) \/ release_permit(i)
           \/ persist_task_finish(i) \/ send_outcome(i)
           \/ drop_progress_guard(i) \/ drop_prune_guard(i) \/ drop_sender(i)
    PROVE  UNCHANGED Executor!vars
  <1> DEFINE queued == {"start", "entry", "lock", "queued", "permit"}
             ended  == {"record", "unlock", "drop_arc", "prune", "release",
                        "finish", "send", "guard", "slot", "close", "done"}
  <1>1. /\ tasks' = tasks
        /\ \E l \in Locations : pc' = [pc EXCEPT ![i] = l]
        /\ outcome' = outcome \/ \E o : outcome' = [outcome EXCEPT ![i] = o]
        /\ arc' = arc \/ \E m : arc' = [arc EXCEPT ![i] = m]
    <2>1. CASE \/ persist_task_start(i) \/ clone_resource_lock(i) \/ lock_owned(i)
      BY <2>1 DEF persist_task_start, clone_resource_lock, lock_owned, goto,
                  locks, Locations
    <2>2. CASE acquire_permit(i) /\ pc'[i] = "permit"
      BY <2>2 DEF acquire_permit, goto, Locations
    <2>3. CASE execute(i)
      BY <2>3 DEF execute, goto, locks, Locations
    <2>4. CASE \/ record_completion(i) \/ unlock(i) \/ drop_arc(i)
               \/ prune_resource_lock(i) \/ release_permit(i)
      BY <2>4 DEF record_completion, unlock, drop_arc, prune_resource_lock,
                  release_permit, goto, locks, Locations
    <2>5. CASE \/ persist_task_finish(i) \/ send_outcome(i)
               \/ drop_progress_guard(i) \/ drop_prune_guard(i) \/ drop_sender(i)
      BY <2>5 DEF persist_task_finish, send_outcome, drop_progress_guard,
                  drop_prune_guard, drop_sender, goto, locks, Locations
    <2> QED BY <2>1, <2>2, <2>3, <2>4, <2>5
  <1>2. \/ pc[i] \in queued /\ pc'[i] \in queued
        \/ pc[i] = "running" /\ pc'[i] = "posting"
        \/ pc[i] \in ended /\ pc'[i] \in ended /\ outcome' = outcome
    <2>1. CASE \/ persist_task_start(i) \/ clone_resource_lock(i) \/ lock_owned(i)
      BY <2>1 DEF persist_task_start, clone_resource_lock, lock_owned, goto,
                  IInv, TypeOK
    <2>2. CASE acquire_permit(i) /\ pc'[i] = "permit"
      BY <2>2 DEF acquire_permit
    <2>3. CASE execute(i)
      BY <2>3 DEF execute, goto, IInv, TypeOK
    <2>4. CASE \/ record_completion(i) \/ unlock(i) \/ drop_arc(i)
               \/ prune_resource_lock(i) \/ release_permit(i)
      BY <2>4 DEF record_completion, unlock, drop_arc, prune_resource_lock,
                  release_permit, goto, IInv, TypeOK
    <2>5. CASE \/ persist_task_finish(i) \/ send_outcome(i)
               \/ drop_progress_guard(i) \/ drop_prune_guard(i) \/ drop_sender(i)
      BY <2>5 DEF persist_task_finish, send_outcome, drop_progress_guard,
                  drop_prune_guard, drop_sender, goto, IInv, TypeOK
    <2> QED BY <2>1, <2>2, <2>3, <2>4, <2>5
  <1>3. Only(i)
    BY <1>1 DEF Only, IInv, TypeOK
  <1>4. phaseOf(i)' = phaseOf(i) /\ resultOf(i)' = resultOf(i)
    BY <1>2 DEF phaseOf, resultOf
  <1> QED BY <1>3, <1>4, OnlySeen, seen_stutter

(* Running tasks other than i hold the semaphore's permits and other keys. *)
LEMMA RunningHave ==
    ASSUME IInv, Tidy, NEW i \in TaskId, pc[i] \in {"queued", "permit"}, holder(i),
           NEW j \in TaskId, phaseOf(j) = "running"
    PROVE  /\ jobOf(i).key # jobOf(j).key /\ j # i
           /\ jobOf(i).class = semaphore_of(tasks[i])
           /\ jobOf(j).class = semaphore_of(tasks[j])
           /\ semaphore_of(tasks[j]) # None => j \in permits[semaphore_of(tasks[j])]
  <1>1. pc[j] \in {"running", "posting"} /\ j # i
    BY DEF phaseOf
  <1>2. tasks[i] # None /\ tasks[j] # None
    BY <1>1, TaskThere
  <1>3. /\ jobOf(i) = [key |-> key(i), class |-> semaphore_of(tasks[i])]
        /\ jobOf(j) = [key |-> key(j), class |-> semaphore_of(tasks[j])]
    BY <1>2 DEF jobOf
  <1>4. key(i) # key(j)
    <2>1. holder(j)
      BY <1>1 DEF IInv, LockHolders, HasLock
    <2>2. arc[i] = resource_locks[key(i)] /\ arc[j] = resource_locks[key(j)]
      BY <1>1, NoneAssumption DEF IInv, ClonesInMap, HasClone
    <2> QED BY <1>1, <2>1, <2>2 DEF holder
  <1>5. semaphore_of(tasks[j]) # None => j \in permits[semaphore_of(tasks[j])]
    BY <1>1 DEF Tidy, Permits, PermitsTaken, HasPermit
  <1> QED BY <1>1, <1>3, <1>4, <1>5

(* A handler is entered only when its key is free and its class has room.  *)
LEMMA refine_start ==
    ASSUME IInv, Tidy, NEW i \in TaskId,
           permit_granted(i) \/ (acquire_permit(i) /\ pc'[i] # "permit")
    PROVE  Executor!Start(i)
  <1> DEFINE s == semaphore_of(tasks[i])
  <1>1. /\ pc[i] \in {"queued", "permit"} /\ pc' = [pc EXCEPT ![i] = "running"]
        /\ UNCHANGED <<tasks, outcome, arc>>
        /\ \/ s = None
           \/ Cardinality(permits[s]) < Capacity[s]
           \/ pc[i] = "permit" /\ i \in permits[s]
    <2>1. CASE permit_granted(i)
      BY <2>1 DEF permit_granted, goto, locks
    <2>2. CASE acquire_permit(i) /\ pc'[i] # "permit"
      BY <2>2 DEF acquire_permit, goto, IInv, TypeOK
    <2> QED BY <2>1, <2>2
  <1>2. holder(i)
    BY DEF permit_granted, acquire_permit, IInv, LockHolders, HasLock
  <1>3. Only(i) /\ pc'[i] = "running"
    BY <1>1 DEF Only, IInv, TypeOK
  <1>4. /\ phaseOf(i) = "queued" /\ phaseOf(i)' = "running"
        /\ resultOf(i)' = resultOf(i)
    BY <1>1, <1>3 DEF phaseOf, resultOf
  <1>5. \A j \in TaskId : phaseOf(j) = "running" => jobOf(j).key # jobOf(i).key
    BY <1>1, <1>2, RunningHave
  <1>6. jobOf(i).class = s
    <2>1. tasks[i] # None
      BY <1>1, TaskThere
    <2> QED BY <2>1 DEF jobOf
  <1>7. s \in Semaphores \cup {None}
    BY SemaphoreType
  <1> HIDE DEF s
  <1>8. ASSUME s # None
        PROVE  Cardinality({j \in TaskId : /\ phaseOf(j) = "running"
                                           /\ jobOf(j).class = s}) < Capacity[s]
    <2> DEFINE R == {j \in TaskId : phaseOf(j) = "running" /\ jobOf(j).class = s}
    <2>1. PICK r \in Semaphores : r = s
      BY <1>7, <1>8
    <2>2. R \subseteq permits[r] /\ i \notin R
      BY <1>1, <1>2, <1>8, <2>1, RunningHave
    <2>3. /\ IsFiniteSet(permits[r]) /\ Cardinality(permits[r]) \in Nat
          /\ Capacity[r] \in Nat /\ Cardinality(permits[r]) <= Capacity[r]
      BY PermitsFinite, SemaphoreFacts DEF IInv
    <2> HIDE DEF R
    <2>4. CASE Cardinality(permits[r]) < Capacity[r]
      <3>1. Cardinality(R) <= Cardinality(permits[r]) /\ Cardinality(R) \in Nat
        BY <2>2, <2>3, FS_Subset, FS_CardinalityType
      <3> QED BY <2>1, <2>3, <2>4, <3>1 DEF R
    <2>5. CASE i \in permits[r]
      <3>1. /\ IsFiniteSet(permits[r] \ {i})
            /\ Cardinality(permits[r] \ {i}) = Cardinality(permits[r]) - 1
        BY <2>3, <2>5, FS_RemoveElement
      <3>2. R \subseteq permits[r] \ {i}
        BY <2>2
      <3>3. Cardinality(R) <= Cardinality(permits[r] \ {i}) /\ Cardinality(R) \in Nat
        BY <3>1, <3>2, FS_Subset, FS_CardinalityType
      <3> QED BY <2>1, <2>3, <3>1, <3>3 DEF R
    <2> QED BY <1>1, <1>8, <2>1, <2>4, <2>5
  <1>9. SeenOf(i) /\ jobOf(i)' = jobOf(i)
    BY <1>3, OnlySeen
  <1> QED BY <1>4, <1>5, <1>6, <1>8, <1>9, seen_start

(* A handler's end, by panic or with its terminal state, is the job's end. *)
LEMMA refine_end ==
    ASSUME IInv, NEW i \in TaskId, panic(i) \/ write_terminal_progress(i)
    PROVE  Executor!End(i)
  <1>1. /\ pc[i] \in {"running", "posting"}
        /\ \/ /\ pc' = [pc EXCEPT ![i] = "release"]
              /\ outcome' = [outcome EXCEPT ![i] = Err("task panicked")]
           \/ /\ pc' = [pc EXCEPT ![i] = "record"] /\ pc[i] = "posting"
              /\ outcome' = outcome
        /\ UNCHANGED <<tasks, arc>>
    BY DEF panic, write_terminal_progress, goto, locks
  <1>2. Only(i) /\ pc'[i] \in {"release", "record"} /\ outcome'[i] \in TaskOutcome
    BY <1>1, OutcomeType DEF Only, IInv, TypeOK, HasOutcome
  <1>3. /\ phaseOf(i) = "running" /\ phaseOf(i)' = "ended"
        /\ resultOf(i)' \in TaskOutcome
    BY <1>1, <1>2 DEF phaseOf, resultOf
  <1> QED BY <1>2, <1>3, OnlySeen, seen_end

(* A post is the post of a job with the task's key and semaphore.          *)
LEMMA refine_post ==
    ASSUME IInv, NEW t \in Task, post(t), UNCHANGED <<outcome>>
    PROVE  \E i \in TaskId : Executor!Post(i)
  <1>1. PICK n \in TaskId : n = next_id
    BY DEF post
  <1>2. /\ pc' = [pc EXCEPT ![n] = "start"]
        /\ tasks' = [tasks EXCEPT ![n] = t]
    BY <1>1 DEF post, goto
  <1>3. pc[n] = "unposted"
    BY <1>1, BoundsAssumption DEF IInv, Posted, TaskId
  <1>4. pc'[n] = "start" /\ tasks'[n] = t
    BY <1>2 DEF IInv, TypeOK
  <1>5. SeenOf(n)
    <2> SUFFICES ASSUME NEW j \in TaskId, j # n
                 PROVE  /\ jobOf(j)' = jobOf(j) /\ phaseOf(j)' = phaseOf(j)
                        /\ resultOf(j)' = resultOf(j)
      BY DEF SeenOf
    <2>1. pc'[j] = pc[j] /\ tasks'[j] = tasks[j] /\ outcome' = outcome
      BY <1>2 DEF IInv, TypeOK
    <2> QED BY <2>1 DEF jobOf, phaseOf, resultOf, key
  <1>6. /\ phaseOf(n) = "absent" /\ phaseOf(n)' = "queued"
        /\ resultOf(n)' = resultOf(n)
    BY <1>3, <1>4 DEF phaseOf, resultOf
  <1>7. jobOf(n)' \in Executor!Job
    <2>1. t # None /\ resource_key(t) \in Keys /\ semaphore_of(t) \in Semaphores \cup {None}
      BY KeyType, SemaphoreType, NoneAssumption
    <2>2. jobOf(n)' = [key |-> resource_key(t), class |-> semaphore_of(t)]
      BY <1>4, <2>1 DEF jobOf, key
    <2> QED BY <2>1, <2>2 DEF Executor!Job
  <1>8. Executor!Post(n)
    BY <1>5, <1>6, <1>7, seen_post
  <1> QED BY <1>8

(* A step that moves no future is invisible to the executor.               *)
LEMMA refine_bystander ==
    ASSUME UNCHANGED <<tasks, pc, outcome>>
    PROVE  UNCHANGED Executor!vars
  <1>1. ASSUME NEW i \in TaskId
        PROVE  /\ jobOf(i)' = jobOf(i) /\ phaseOf(i)' = phaseOf(i)
               /\ resultOf(i)' = resultOf(i)
    BY DEF jobOf, phaseOf, resultOf, key
  <1> QED BY <1>1 DEF Executor!vars

(* Every step of the worker is a step of the executor or a stutter.        *)
LEMMA RefineStep ==
    IInv /\ Tidy /\ [Next]_vars => [Executor!Next]_(Executor!vars)
  <1> SUFFICES ASSUME IInv, Tidy, [Next]_vars
               PROVE  Executor!Next \/ UNCHANGED Executor!vars
    OBVIOUS
  <1>1. ASSUME NEW t \in Task, post(t), UNCHANGED <<outcome>>
        PROVE  Executor!Next
    BY <1>1, refine_post DEF Executor!Next
  <1>2. ASSUME NEW i \in TaskId, FutureStep(i)
        PROVE  Executor!Next \/ UNCHANGED Executor!vars
    <2>1. CASE post_follow_up(i)
      <3> DEFINE v == pending_follow_ups(i)[posts[i] + 1]
                 t == [variant |-> v, arg |-> tasks[i].arg]
      <3>1. pc[i] = "posting" /\ UNCHANGED <<outcome>>
        BY <2>1 DEF post_follow_up
      <3>2. CASE v \in Variants /\ post(t)
        <4>1. t \in Task
          BY <3>1, <3>2, TaskThere DEF Task
        <4> HIDE DEF t, v
        <4> QED BY <1>1, <3>1, <3>2, <4>1
      <3>3. CASE UNCHANGED <<next_id, tasks, pc, completions, progress>>
        BY <3>1, <3>3, refine_bystander
      <3> QED BY <2>1, <3>2, <3>3 DEF post_follow_up
    <2>2. CASE permit_granted(i) \/ (acquire_permit(i) /\ pc'[i] # "permit")
      BY <2>2, refine_start DEF Executor!Next
    <2>3. CASE panic(i) \/ write_terminal_progress(i)
      BY <2>3, refine_end DEF Executor!Next
    <2> QED BY <1>2, <2>1, <2>2, <2>3, refine_silent DEF FutureStep
  <1>3. CASE PostRoot
    <2>1. PICK t \in Roots : post(t)
      BY <1>3 DEF PostRoot
    <2>2. t \in Task /\ UNCHANGED <<outcome>>
      BY <1>3, TaskAssumption DEF PostRoot
    <2> QED BY <1>1, <2>1, <2>2
  <1>4. ASSUME UNCHANGED <<future>>
        PROVE  UNCHANGED Executor!vars
    BY <1>4, refine_bystander DEF future
  <1>5. ASSUME NEW i \in TaskId,
               \/ report_progress_update(i)
               \/ \E u \in Users : set_task_owner(i, u)
               \/ \E c \in Callers : await_completion(c, i)
        PROVE  UNCHANGED <<future>>
    BY <1>5 DEF report_progress_update, set_task_owner, await_completion
  <1>6. ASSUME NEW c \in Callers, observe(c) \/ time_out(c)
        PROVE  UNCHANGED <<future>>
    BY <1>6 DEF observe, time_out
  <1>7. ASSUME NEW p \in Pollers, snapshot(p)
        PROVE  UNCHANGED <<future>>
    BY <1>7 DEF snapshot
  <1>8. ASSUME UNCHANGED vars \/ Quiescent
        PROVE  UNCHANGED <<future>>
    BY <1>8 DEF vars, Quiescent
  <1> QED BY <1>2, <1>3, <1>4, <1>5, <1>6, <1>7, <1>8 DEF Next

(* The worker implements a keyed executor: however its mutexes, map        *)
(* entries, permits, guards and panics interleave, each task is queued,    *)
(* run once with its key to itself and its class within capacity, and      *)
(* ended with one outcome (exec.rs run, queue.rs post).                    *)
THEOREM Implements == Spec => Executor!Spec
  <1>1. Init => Executor!Init
    <2> SUFFICES ASSUME Init PROVE Executor!Init
      OBVIOUS
    <2>1. ASSUME NEW i \in TaskId
          PROVE  jobOf(i) = None /\ phaseOf(i) = "absent" /\ resultOf(i) = None
      BY DEF Init, jobOf, phaseOf, resultOf
    <2> QED BY <2>1 DEF Executor!Init
  <1>2. IInv /\ Tidy /\ Told /\ [Next]_vars => [Executor!Next]_(Executor!vars)
    BY RefineStep
  <1> QED BY <1>1, <1>2, Order, PTL DEF Spec, Executor!Spec
=============================================================================
