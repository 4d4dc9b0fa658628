-------------------------- MODULE WorkerRefinement --------------------------
(***************************************************************************)
(* The worker implements a keyed executor: a task is queued from `post`    *)
(* until its handler is entered, running until the handler has returned    *)
(* and its terminal state is written (or until it panics), and ended after.*)
(***************************************************************************)
EXTENDS Worker

jobOf(i) ==
    IF tasks[i] = None THEN None
    ELSE [key |-> key(i), class |-> semaphore_of(tasks[i])]

phaseOf(i) ==
    CASE pc[i] = "unposted" -> "absent"
      [] pc[i] \in {"start", "entry", "lock", "queued", "permit"} -> "queued"
      [] pc[i] \in {"running", "posting"} -> "running"
      [] OTHER -> "ended"

resultOf(i) == IF phaseOf(i) = "ended" THEN outcome[i] ELSE None

Executor == INSTANCE KeyedExecutor WITH
    JobId  <- TaskId,
    Key    <- Keys,
    Class  <- Semaphores,
    Result <- TaskOutcome,
    job    <- [i \in TaskId |-> jobOf(i)],
    phase  <- [i \in TaskId |-> phaseOf(i)],
    result <- [i \in TaskId |-> resultOf(i)]

(* Every step of the worker is a step of a keyed executor or invisible to  *)
(* it, and under the runtime's fairness every posted task is started and   *)
(* ended (exec.rs run, queue.rs post).                                     *)
ImplementsExecutor == Executor!FairSpec
=============================================================================
