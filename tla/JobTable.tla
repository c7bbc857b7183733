------------------------------ MODULE JobTable ------------------------------
(***************************************************************************)
(* What the bg_jobs table promises to whoever reads the status of a job    *)
(* (job_status, job_list, job_logs and their CLI counterparts), with the   *)
(* executors, the processes they run in and the followers left out.        *)
(*                                                                         *)
(* A row is inserted as pending.  It becomes running and then done or      *)
(* failed; "done" and "failed" are final: only deletion ends them.         *)
(* "cancelled" is not final: the executor that is still behind the row     *)
(* overwrites it (Start and Finish are enabled in a cancelled row).        *)
(***************************************************************************)

CONSTANT Jobs

VARIABLE status

Final == {"done", "failed"}

Unsettled == {"pending", "running", "cancelled"}

Init == status = [j \in Jobs |-> "absent"]

Submit(j) == /\ status[j] = "absent"
             /\ status' = [status EXCEPT ![j] = "pending"]

Start(j) == /\ status[j] \in {"pending", "cancelled"}
            /\ status' = [status EXCEPT ![j] = "running"]

Finish(j) == /\ status[j] \in Unsettled
             /\ \E s \in Final : status' = [status EXCEPT ![j] = s]

Cancel(j) == /\ status[j] \in {"pending", "running"}
             /\ status' = [status EXCEPT ![j] = "cancelled"]

\* Delete removes one row whatever its status, a purge any number of them.
Remove == \E D \in SUBSET Jobs :
            status' = [j \in Jobs |-> IF j \in D THEN "absent" ELSE status[j]]

Next == \/ \E j \in Jobs : Submit(j) \/ Start(j) \/ Finish(j) \/ Cancel(j)
        \/ Remove

Spec == Init /\ [][Next]_status
=============================================================================
