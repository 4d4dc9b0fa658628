---------------------------- MODULE KeyedExecutor ----------------------------
(***************************************************************************)
(* What the worker promises to whoever posts a task, without mutexes, map  *)
(* entries, queues, guards or futures: jobs with equal keys run one at a   *)
(* time, no class runs more jobs at once than its capacity, every job runs *)
(* at most once and ends with one result.                                  *)
(***************************************************************************)
EXTENDS Naturals, FiniteSets

CONSTANTS
    JobId,       \* the ids handed out
    Key, Class,  \* what a job contends for
    Capacity,    \* jobs of a class that may run at once
    Result,      \* how a job may end
    None         \* no class, no job, no result

Job == [key : Key, class : Class \cup {None}]

VARIABLES
    job,     \* job[i]: the job posted as i, None before
    phase,   \* phase[i]: absent, queued, running or ended
    result   \* result[i]: how job i ended, None before

vars == <<job, phase, result>>

Init ==
    /\ job = [i \in JobId |-> None]
    /\ phase = [i \in JobId |-> "absent"]
    /\ result = [i \in JobId |-> None]

Running(class) == {i \in JobId : phase[i] = "running" /\ job[i].class = class}

Post(i) ==
    /\ phase[i] = "absent"
    /\ \E j \in Job : job' = [job EXCEPT ![i] = j]
    /\ phase' = [phase EXCEPT ![i] = "queued"]
    /\ UNCHANGED result

(* A job starts when its key is free and its class has room. *)
Start(i) ==
    /\ phase[i] = "queued"
    /\ \A j \in JobId : phase[j] = "running" => job[j].key # job[i].key
    /\ \/ job[i].class = None
       \/ Cardinality(Running(job[i].class)) < Capacity[job[i].class]
    /\ phase' = [phase EXCEPT ![i] = "running"]
    /\ UNCHANGED <<job, result>>

End(i) ==
    /\ phase[i] = "running"
    /\ phase' = [phase EXCEPT ![i] = "ended"]
    /\ \E r \in Result : result' = [result EXCEPT ![i] = r]
    /\ UNCHANGED job

Next == \E i \in JobId : Post(i) \/ Start(i) \/ End(i)

Spec == Init /\ [][Next]_vars

(* No job is passed over for ever, and none runs for ever. *)
FairSpec ==
    /\ Spec
    /\ \A i \in JobId : SF_vars(Start(i)) /\ WF_vars(End(i))
=============================================================================
