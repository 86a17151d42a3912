---------------------------- MODULE JobLifecycle ----------------------------
(***************************************************************************)
(* What the scheduler promises about the STATUS of each row of             *)
(* printer_scheduler_jobs: rows are only ever added, one active row per    *)
(* duplicate key, retries only after a claim, and a finished row that      *)
(* never becomes active again.  The one terminal status that may still     *)
(* change is a success, which the handler that completed the job may take  *)
(* back to FAILED.  No worker, lock or clock appears.                      *)
(***************************************************************************)
CONSTANTS Job,   \* row ids
          Key    \* (job_name, job_kind, target_table, target_id)

VARIABLES status,  \* [Job -> JobStatus or "ABSENT"]
          key      \* [Job -> Key or "none"], written when the row is inserted

absVars == <<status, key>>

ActiveStatus   == {"PENDING", "RUNNING", "COOLDOWN"}

Init ==
  /\ status = [j \in Job |-> "ABSENT"]
  /\ key = [j \in Job |-> "none"]

Insert(j, k) ==
  /\ status[j] = "ABSENT"
  /\ \A i \in Job : key[i] = k => status[i] \notin ActiveStatus
  /\ status' = [status EXCEPT ![j] = "PENDING"]
  /\ key' = [key EXCEPT ![j] = k]

Move(j, from, to) ==
  /\ status[j] \in from
  /\ \E s \in to : status' = [status EXCEPT ![j] = s]
  /\ UNCHANGED key

Claim(j)  == Move(j, {"PENDING", "COOLDOWN"}, {"RUNNING"})
Retry(j)  == Move(j, {"RUNNING"}, {"COOLDOWN"})
Close(j)  == Move(j, ActiveStatus, {"SUCCEEDED", "FAILED", "CANCELLED"})
TakeBack(j) == Move(j, {"SUCCEEDED"}, {"FAILED"})

(***************************************************************************)
(* Stale locks are released in one statement, for a whole set of rows.     *)
(***************************************************************************)
Release(S) ==
  /\ \A j \in S : status[j] = "RUNNING"
  /\ status' = [j \in Job |-> IF j \in S THEN "PENDING" ELSE status[j]]
  /\ UNCHANGED key

Next ==
  \/ \E j \in Job, k \in Key : Insert(j, k)
  \/ \E j \in Job : Claim(j) \/ Retry(j) \/ Close(j) \/ TakeBack(j)
  \/ \E S \in SUBSET Job : Release(S)

Spec == Init /\ [][Next]_absVars
=============================================================================
