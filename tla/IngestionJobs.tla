--------------------------- MODULE IngestionJobs ---------------------------
(***************************************************************************)
(* What the status of an ingestion job may do, as app/services/job_state.py *)
(* states it: the table of allowed transitions, and a job that follows it. *)
(* No handler consults the table; module Ingestion is shown to implement   *)
(* this specification all the same.                                        *)
(***************************************************************************)
CONSTANT Jobs

VARIABLE job     \* ingestion_jobs.status, "absent" before the row exists

JobStatus == {"queued", "processing", "succeeded", "failed", "cancelled"}

AllowedTransitions ==
    [s \in JobStatus |->
        CASE s = "queued"     -> {"processing", "cancelled"}
          [] s = "processing" -> {"succeeded", "failed", "cancelled"}
          [] OTHER            -> {}]

CanTransitionJob(current, target) == target \in AllowedTransitions[current]

Init == job = [j \in Jobs |-> "absent"]

(* A job is created in one of the two states that are not an outcome.      *)
Create(j) ==
    /\ job[j] = "absent"
    /\ \E s \in {"queued", "processing"} : job' = [job EXCEPT ![j] = s]

Transition(j) ==
    /\ job[j] # "absent"
    /\ \E s \in JobStatus :
         /\ CanTransitionJob(job[j], s)
         /\ job' = [job EXCEPT ![j] = s]

Next == \E j \in Jobs : Create(j) \/ Transition(j)

Spec == Init /\ [][Next]_job
=============================================================================
