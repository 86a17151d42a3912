----------------------------- MODULE Scheduler -----------------------------
(***************************************************************************)
(* The durable job table of printer_v1/scheduler: printer_scheduler_jobs   *)
(* in SQLite and the helpers of scheduler.py that read and write it.       *)
(*                                                                         *)
(* A worker is one process (or one call chain) with its own connection.    *)
(* The helpers open a connection per call (connect, scheduler.py:38), and  *)
(* a SELECT outside a transaction commits nothing, so a helper that reads  *)
(* and then writes is TWO steps here: other workers may run in between.    *)
(* Statements by primary key carry no status or owner condition, exactly   *)
(* as in the code.                                                         *)
(***************************************************************************)
EXTENDS Integers, FiniteSets

CONSTANTS
  Job,          \* row ids that may be allocated
  Key,          \* duplicate keys (job_name, job_kind, target_table, target_id)
  Worker,       \* processes that call the helpers
  MaxRetries,   \* max_retries of a fail_job call that gives none (3 by default)
  CooldownBase, \* base of get_retry_cooldown_seconds, in clock ticks
  LockTimeout,  \* lock_timeout_seconds of release_stale_locks, in clock ticks
  MaxTime       \* bound on the clock

ASSUME SchedulerConstants ==
  /\ MaxRetries \in Nat /\ CooldownBase \in Nat
  /\ LockTimeout \in Nat /\ MaxTime \in Nat
  /\ "none" \notin Key /\ "none" \notin Worker

VARIABLES
  jobs,    \* [Job -> row]
  worker,  \* [Worker -> what the worker is in the middle of]
  now      \* the clock

vars == <<jobs, worker, now>>

-----------------------------------------------------------------------------
(* Types *)

ActiveStatus   == {"PENDING", "RUNNING", "COOLDOWN"}
TerminalStatus == {"SUCCEEDED", "FAILED", "SKIPPED", "CANCELLED"}
NoTime == -1    \* SQL NULL in a timestamp column

Row == [status   : ActiveStatus \cup TerminalStatus \cup {"ABSENT"},
        key      : Key \cup {"none"},
        due      : Nat,                  \* scheduled_for
        owner    : Worker \cup {"none"}, \* lock_owner
        lockedAt : Nat \cup {NoTime},    \* locked_at
        retries  : Nat]                  \* retry_count

AbsentRow == [status |-> "ABSENT", key |-> "none", due |-> 0,
              owner |-> "none", lockedAt |-> NoTime, retries |-> 0]

(* pc says which helper the worker has entered; row is what its SELECT saw,   *)
(* limit the max_retries of its fail_job call, and late that the same handler *)
(* had closed the job before.                                                 *)
WorkerState ==
     [pc : {"idle"}]
\cup [pc : {"enqueue"}, key : Key]
\cup [pc : {"claim"}, job : Job, at : Nat]
\cup [pc : {"work"}, job : Job]
\cup [pc : {"fail"}, job : Job, at : Nat, row : Row, limit : Nat, late : BOOLEAN]
\cup [pc : {"handled"}, job : Job]
\cup [pc : {"close"}, job : Job]

Idle == [pc |-> "idle"]

TypeOK ==
  /\ jobs \in [Job -> Row]
  /\ worker \in [Worker -> WorkerState]
  /\ now \in Nat

Init ==
  /\ jobs = [j \in Job |-> AbsentRow]
  /\ worker = [w \in Worker |-> Idle]
  /\ now = 0

-----------------------------------------------------------------------------
(* enqueue_job: the duplicate check and the INSERT use two connections *)

HasActiveDuplicate_Pending_Bug(k) ==
  \E j \in Job : jobs[j].key = k /\ jobs[j].status = "PENDING"

HasActiveDuplicate(k) ==
  \E j \in Job : jobs[j].key = k /\ jobs[j].status \in ActiveStatus

EnqueueCheck(w, k) ==
  /\ worker[w].pc = "idle"
  /\ ~HasActiveDuplicate(k)          \* otherwise DUPLICATE_ACTIVE_JOB
  /\ worker' = [worker EXCEPT ![w] = [pc |-> "enqueue", key |-> k]]
  /\ UNCHANGED <<jobs, now>>

EnqueueInsert(w, j, due) ==
  /\ worker[w].pc = "enqueue"
  /\ jobs[j].status = "ABSENT"
  /\ jobs' = [jobs EXCEPT ![j] =
       [status |-> "PENDING", key |-> worker[w].key, due |-> due,
        owner |-> "none", lockedAt |-> NoTime, retries |-> 0]]
  /\ worker' = [worker EXCEPT ![w] = Idle]
  /\ UNCHANGED now

-----------------------------------------------------------------------------
(* claim_due_job: SELECT and checks, then UPDATE ... WHERE id = ? *)

(* Variants named ..._Bug are the definition after them with one plausible    *)
(* mistake; they show that the properties notice it and are used nowhere.     *)
Claimable_IgnoresDue_Bug(row) ==
  row.lockedAt = NoTime /\ row.status \in {"PENDING", "COOLDOWN"}

Claimable(row) ==
  /\ row.lockedAt = NoTime                     \* otherwise ALREADY_LOCKED
  /\ row.status \in {"PENDING", "COOLDOWN"}    \* otherwise NOT_FOUND
  /\ row.due <= now                            \* otherwise NOT_DUE

ClaimRead(w, j) ==
  /\ worker[w].pc = "idle"
  /\ Claimable(jobs[j])
  /\ worker' = [worker EXCEPT ![w] = [pc |-> "claim", job |-> j, at |-> now]]
  /\ UNCHANGED <<jobs, now>>

Locked(row, w, at) ==
  [row EXCEPT !.status = "RUNNING", !.owner = w, !.lockedAt = at]

ClaimWrite(w) ==
  /\ worker[w].pc = "claim"
  /\ LET j == worker[w].job IN
     /\ jobs' = [jobs EXCEPT ![j] = Locked(jobs[j], w, worker[w].at)]
     /\ worker' = [worker EXCEPT ![w] = [pc |-> "work", job |-> j]]
  /\ UNCHANGED now

-----------------------------------------------------------------------------
(* The ways a claimed job is closed, all of them by primary key only *)

Unlocked(row, status) ==
  [row EXCEPT !.status = status, !.owner = "none", !.lockedAt = NoTime]

(* The handler of the step is still running when it has completed its job:   *)
(* the checkpoint and the continuation barrier come after complete_job.      *)
Handled(j) == [pc |-> "handled", job |-> j]

Complete(w) ==
  /\ worker[w].pc = "work"
  /\ LET j == worker[w].job IN
     /\ jobs' = [jobs EXCEPT ![j] = Unlocked(jobs[j], "SUCCEEDED")]
     /\ worker' = [worker EXCEPT ![w] = Handled(j)]
  /\ UNCHANGED now

FactoryLimit_Default_Bug == MaxRetries

FactoryLimit == 0   \* max_retries of every fail_job call of the factory

FailSelect(w, limit, late) ==
  /\ worker' = [worker EXCEPT ![w] =
       [pc |-> "fail", job |-> worker[w].job, at |-> now,
        row |-> jobs[worker[w].job], limit |-> limit, late |-> late]]
  /\ UNCHANGED <<jobs, now>>

FailRead(w, limit) ==
  /\ worker[w].pc = "work"
  /\ FailSelect(w, limit, FALSE)

(* What follows the close raises: the handler fails the job it has closed.   *)
HandlerRaises(w) ==
  /\ worker[w].pc = "handled"
  /\ FailSelect(w, FactoryLimit, TRUE)

HandlerReturns(w) ==
  /\ worker[w].pc = "handled"
  /\ worker' = [worker EXCEPT ![w] = Idle]
  /\ UNCHANGED <<jobs, now>>

ShouldCooldown_OffByOne_Bug(count, limit) == count <= limit

ShouldCooldown(count, limit) == count < limit

(* FailedRow is computed from the row that was READ; only the columns the   *)
(* UPDATE names are written over the row that is there now, whatever it is. *)
FailedRow(row, seen, at, limit) ==
  LET count == seen.retries + 1 IN
  IF ShouldCooldown(count, limit)
  THEN [Unlocked(row, "COOLDOWN") EXCEPT !.due = at + CooldownBase * count,
                                         !.retries = count]
  ELSE [Unlocked(row, "FAILED") EXCEPT !.due = seen.due, !.retries = count]

(* In the factory the handler goes on after this close as well.             *)
FailWrite(w) ==
  /\ worker[w].pc = "fail"
  /\ LET call == worker[w] IN
     /\ jobs' = [jobs EXCEPT ![call.job] =
                   FailedRow(jobs[call.job], call.row, call.at, call.limit)]
     /\ worker' = [worker EXCEPT ![w] =
                     IF call.limit = FactoryLimit /\ ~call.late
                     THEN Handled(call.job) ELSE Idle]
  /\ UNCHANGED now

(* A closer terminates a job it never claimed: it selects an active job, and  *)
(* then cancels it (cancel_job), or gives it the status its work ended with   *)
(* (complete_job, or fail_job with max_retries = 0: scheduler_parity.py).     *)
CloseRead(w, j) ==
  /\ worker[w].pc = "idle"
  /\ jobs[j].status \in ActiveStatus
  /\ worker' = [worker EXCEPT ![w] = [pc |-> "close", job |-> j]]
  /\ UNCHANGED <<jobs, now>>

ClosedRow(row, outcome) ==
  [Unlocked(row, outcome) EXCEPT
     !.retries = IF outcome = "FAILED" THEN row.retries + 1 ELSE row.retries]

CloseWrite(w, outcome) ==
  /\ worker[w].pc = "close"
  /\ LET j == worker[w].job IN
       jobs' = [jobs EXCEPT ![j] = ClosedRow(jobs[j], outcome)]
  /\ worker' = [worker EXCEPT ![w] = Idle]
  /\ UNCHANGED now

-----------------------------------------------------------------------------
(* release_stale_locks: one UPDATE over every stale row *)

Stale(row) ==
  /\ row.status = "RUNNING"
  /\ row.lockedAt # NoTime
  /\ row.lockedAt < now - LockTimeout

ReleaseStaleLocks(w) ==
  /\ worker[w].pc = "idle"
  /\ \E j \in Job : Stale(jobs[j])
  /\ jobs' = [j \in Job |-> IF Stale(jobs[j]) THEN Unlocked(jobs[j], "PENDING")
                                              ELSE jobs[j]]
  /\ UNCHANGED <<worker, now>>

-----------------------------------------------------------------------------
(* The environment: a worker dies anywhere and starts again, time passes *)

Crash(w) ==
  /\ worker[w].pc # "idle"
  /\ worker' = [worker EXCEPT ![w] = Idle]
  /\ UNCHANGED <<jobs, now>>

Tick ==
  /\ now < MaxTime
  /\ now' = now + 1
  /\ UNCHANGED <<jobs, worker>>

Next ==
  \/ \E w \in Worker :
       \/ \E k \in Key : EnqueueCheck(w, k)
       \/ \E j \in Job, delay \in {0, 1} : EnqueueInsert(w, j, now + delay)
       \/ \E j \in Job : ClaimRead(w, j) \/ CloseRead(w, j)
       \/ ClaimWrite(w) \/ Complete(w)
       \/ \E s \in {"CANCELLED", "SUCCEEDED", "FAILED"} : CloseWrite(w, s)
       \/ \E limit \in {FactoryLimit, MaxRetries} : FailRead(w, limit)
       \/ FailWrite(w) \/ HandlerRaises(w) \/ HandlerReturns(w)
       \/ ReleaseStaleLocks(w) \/ Crash(w)
  \/ Tick

Spec == Init /\ [][Next]_vars

-----------------------------------------------------------------------------
(* Properties *)

(* An active job blocks every other active job with its duplicate key        *)
(* (enqueue_job returns DUPLICATE_ACTIVE_JOB).                               *)
NoDuplicateActive ==
  \A i, j \in Job :
    /\ jobs[i].status \in ActiveStatus /\ jobs[j].status \in ActiveStatus
    /\ jobs[i].key = jobs[j].key
    => i = j

(* Whatever the workers do to each other, the lock columns and the status    *)
(* agree: a row that is not RUNNING holds no lock (a lock left behind would  *)
(* make claim_due_job answer ALREADY_LOCKED for ever), and a RUNNING row     *)
(* carries the lock_owner and locked_at that release_stale_locks needs.      *)
LockCoherent ==
  \A j \in Job :
    /\ (jobs[j].status = "RUNNING") <=> (jobs[j].lockedAt # NoTime)
    /\ (jobs[j].lockedAt # NoTime) <=> (jobs[j].owner # "none")

(* A job starts to run only when it is due: the cooldown of a failed job is  *)
(* not cut short by a claim.                                                 *)
CooldownHonoured ==
  [][\A j \in Job :
       jobs[j].status # "RUNNING" /\ jobs'[j].status = "RUNNING"
         => jobs[j].due <= now]_vars

(* A job waits for another attempt only while its retry budget lasts, also   *)
(* when a closer, a crash or a stale-lock release came between, and a handler *)
(* that fails the job it has closed counts one failure more, never a second.  *)
RetryBudget ==
  \A j \in Job :
    /\ jobs[j].status = "COOLDOWN" => jobs[j].retries < MaxRetries
    /\ jobs[j].retries <= 2 \/ jobs[j].retries <= MaxRetries + 1

(* What a handler leaves of its job while it goes on: the success or the      *)
(* failure it gave it, with at most one failure counted beyond the budget's.  *)
ClosedByHandler(row) ==
  /\ row.status \in {"SUCCEEDED", "FAILED"}
  /\ row.retries <= 1 \/ row.retries <= MaxRetries

(* What each worker still believes between its SELECT and its UPDATE, and     *)
(* between its claim and the return of its handler.  With a single worker     *)
(* nobody can falsify it, which makes the properties above inductive; with    *)
(* two workers it is false.                                                   *)
SeenStillTrue(w) ==
  CASE worker[w].pc = "enqueue" -> ~HasActiveDuplicate(worker[w].key)
    [] worker[w].pc = "claim"   -> /\ jobs[worker[w].job].status \in {"PENDING", "COOLDOWN"}
                                   /\ jobs[worker[w].job].due <= worker[w].at
                                   /\ worker[w].at <= now
    [] worker[w].pc = "work"    -> jobs[worker[w].job].status = "RUNNING"
    [] worker[w].pc = "fail"    -> /\ worker[w].row = jobs[worker[w].job]
                                   /\ worker[w].limit \in {FactoryLimit, MaxRetries}
                                   /\ IF worker[w].late
                                      THEN /\ worker[w].limit = FactoryLimit
                                           /\ ClosedByHandler(worker[w].row)
                                      ELSE worker[w].row.status = "RUNNING"
    [] worker[w].pc = "handled" -> ClosedByHandler(jobs[worker[w].job])
    [] worker[w].pc = "close"   -> jobs[worker[w].job].status \in ActiveStatus
    [] OTHER                    -> TRUE

ActiveBudget ==
  \A j \in Job :
    jobs[j].status \in ActiveStatus =>
      jobs[j].retries = 0 \/ jobs[j].retries < MaxRetries

SingleWorkerInv ==
  /\ \A w \in Worker : SeenStillTrue(w)
  /\ NoDuplicateActive
  /\ ActiveBudget
  /\ RetryBudget

(* With one worker the table implements the lifecycle of JobLifecycle: no     *)
(* sequence of claims, closes, late failures, crashes and stale releases puts *)
(* a finished job back to work or makes two active rows of one key.           *)
Abstract == INSTANCE JobLifecycle WITH
  status <- [j \in Job |-> jobs[j].status],
  key    <- [j \in Job |-> jobs[j].key]

Lifecycle == Abstract!Spec
=============================================================================
