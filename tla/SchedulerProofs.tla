--------------------------- MODULE SchedulerProofs ---------------------------
(***************************************************************************)
(* Theorems about Scheduler, for every set of jobs, keys and workers and   *)
(* every value of the bounds.                                              *)
(***************************************************************************)
EXTENDS Scheduler, TLAPS

(***************************************************************************)
(* Every step leaves the table, the workers and the clock well typed: in   *)
(* particular fail_job, which writes columns computed from the row it read *)
(* earlier, never writes a value outside the column types.                 *)
(***************************************************************************)
LEMMA UnlockedRow ==
  ASSUME NEW row \in Row, NEW s \in ActiveStatus \cup TerminalStatus
  PROVE  Unlocked(row, s) \in Row
BY DEF Unlocked, Row

LEMMA FailedRowIsRow ==
  ASSUME NEW row \in Row, NEW seen \in Row, NEW at \in Nat, NEW limit \in Nat
  PROVE  FailedRow(row, seen, at, limit) \in Row
<1> DEFINE count == seen.retries + 1
<1>1. count \in Nat /\ CooldownBase * count \in Nat
  BY SchedulerConstants DEF Row
<1>2. at + CooldownBase * count \in Nat
  BY <1>1
<1>3. Unlocked(row, "COOLDOWN") \in Row /\ Unlocked(row, "FAILED") \in Row
  BY UnlockedRow DEF ActiveStatus, TerminalStatus
<1>4. CASE ShouldCooldown(count, limit)
  <2>1. FailedRow(row, seen, at, limit) =
          [Unlocked(row, "COOLDOWN") EXCEPT !.due = at + CooldownBase * count,
                                            !.retries = count]
    BY <1>4 DEF FailedRow
  <2>. HIDE DEF count
  <2> QED BY <1>1, <1>2, <1>3, <2>1 DEF Row
<1>5. CASE ~ShouldCooldown(count, limit)
  <2>1. FailedRow(row, seen, at, limit) =
          [Unlocked(row, "FAILED") EXCEPT !.due = seen.due, !.retries = count]
    BY <1>5 DEF FailedRow
  <2>2. seen.due \in Nat
    BY DEF Row
  <2>. HIDE DEF count
  <2> QED BY <1>1, <1>3, <2>1, <2>2 DEF Row
<1> QED BY <1>4, <1>5

LEMMA FailedRowKeepsKey ==
  ASSUME NEW row \in Row, NEW seen \in Row, NEW at \in Nat, NEW limit \in Nat
  PROVE  /\ FailedRow(row, seen, at, limit).status \in {"COOLDOWN", "FAILED"}
         /\ FailedRow(row, seen, at, limit).key = row.key
<1>1. CASE ShouldCooldown(seen.retries + 1, limit)
  BY <1>1 DEF FailedRow, Unlocked, Row
<1>2. CASE ~ShouldCooldown(seen.retries + 1, limit)
  BY <1>2 DEF FailedRow, Unlocked, Row
<1> QED BY <1>1, <1>2

THEOREM TypeCorrect == Spec => []TypeOK
<1>1. Init => TypeOK
  BY DEF Init, TypeOK, Row, AbsentRow, WorkerState, Idle, NoTime
<1>2. TypeOK /\ [Next]_vars => TypeOK'
  <2> SUFFICES ASSUME TypeOK, [Next]_vars PROVE TypeOK'
    OBVIOUS
  <2> USE DEF TypeOK
  <2>idle. Idle \in WorkerState
    BY DEF WorkerState, Idle
  <2>1. ASSUME NEW w \in Worker, NEW k \in Key, EnqueueCheck(w, k) PROVE TypeOK'
    BY <2>1 DEF EnqueueCheck, WorkerState
  <2>2. ASSUME NEW w \in Worker, NEW j \in Job, NEW delay \in {0, 1},
               EnqueueInsert(w, j, now + delay)
        PROVE  TypeOK'
    <3>1. worker[w].key \in Key
      BY <2>2 DEF EnqueueInsert, WorkerState
    <3>2. [status |-> "PENDING", key |-> worker[w].key, due |-> now + delay,
           owner |-> "none", lockedAt |-> NoTime, retries |-> 0] \in Row
      <4>1. now + delay \in Nat
        OBVIOUS
      <4> QED BY <3>1, <4>1 DEF Row, ActiveStatus
    <3> QED BY <2>2, <3>2, <2>idle DEF EnqueueInsert
  <2>3. ASSUME NEW w \in Worker, NEW j \in Job, ClaimRead(w, j) PROVE TypeOK'
    BY <2>3 DEF ClaimRead, WorkerState
  <2>4. ASSUME NEW w \in Worker, ClaimWrite(w) PROVE TypeOK'
    <3> DEFINE j == worker[w].job
    <3>1. j \in Job /\ worker[w].at \in Nat
      BY <2>4 DEF ClaimWrite, WorkerState
    <3>2. Locked(jobs[j], w, worker[w].at) \in Row
      <4>1. jobs[j] \in Row
        BY <3>1
      <4>2. "RUNNING" \in ActiveStatus \cup TerminalStatus \cup {"ABSENT"}
        BY DEF ActiveStatus
      <4> QED BY <3>1, <4>1, <4>2 DEF Locked, Row
    <3>4. [pc |-> "work", job |-> j] \in WorkerState
      BY <3>1 DEF WorkerState
    <3> QED BY <2>4, <3>1, <3>2, <3>4 DEF ClaimWrite
  <2>handled. \A j \in Job : Handled(j) \in WorkerState
    BY DEF WorkerState, Handled
  <2>5. ASSUME NEW w \in Worker, Complete(w) PROVE TypeOK'
    <3>1. worker[w].job \in Job
      BY <2>5 DEF Complete, WorkerState
    <3> QED BY <2>5, <3>1, <2>handled, UnlockedRow DEF Complete, TerminalStatus
  <2>6. ASSUME NEW w \in Worker, NEW limit \in Nat, NEW late \in BOOLEAN,
               worker[w].pc \in {"work", "handled"}, FailSelect(w, limit, late)
        PROVE  TypeOK'
    <3>1. worker[w].job \in Job
      BY <2>6 DEF WorkerState
    <3>2. [pc |-> "fail", job |-> worker[w].job, at |-> now,
           row |-> jobs[worker[w].job], limit |-> limit, late |-> late] \in WorkerState
      BY <3>1 DEF WorkerState
    <3> QED BY <2>6, <3>2 DEF FailSelect
  <2>7. ASSUME NEW w \in Worker, FailWrite(w) PROVE TypeOK'
    <3>1. /\ worker[w].job \in Job /\ worker[w].at \in Nat /\ worker[w].row \in Row
          /\ worker[w].limit \in Nat
      BY <2>7 DEF FailWrite, WorkerState
    <3> QED BY <2>7, <3>1, <2>idle, <2>handled, FailedRowIsRow DEF FailWrite
  <2>8. ASSUME NEW w \in Worker, NEW j \in Job, CloseRead(w, j) PROVE TypeOK'
    BY <2>8 DEF CloseRead, WorkerState
  <2>9. ASSUME NEW w \in Worker, NEW s \in {"CANCELLED", "SUCCEEDED", "FAILED"},
               CloseWrite(w, s)
        PROVE  TypeOK'
    <3> DEFINE j == worker[w].job
    <3>1. j \in Job
      BY <2>9 DEF CloseWrite, WorkerState
    <3>2. Unlocked(jobs[j], s) \in Row
      BY <3>1, UnlockedRow DEF TerminalStatus
    <3>3. ClosedRow(jobs[j], s) \in Row
      BY <3>1, <3>2 DEF ClosedRow, Row
    <3> QED BY <2>9, <3>1, <3>3, <2>idle DEF CloseWrite
  <2>10. ASSUME NEW w \in Worker, ReleaseStaleLocks(w) PROVE TypeOK'
    BY <2>10, UnlockedRow DEF ReleaseStaleLocks, ActiveStatus
  <2>11. ASSUME NEW w \in Worker, Crash(w) PROVE TypeOK'
    BY <2>11, <2>idle DEF Crash
  <2>12. CASE Tick
    BY <2>12 DEF Tick
  <2>13. CASE UNCHANGED vars
    BY <2>13 DEF vars
  <2>14. ASSUME NEW w \in Worker, HandlerReturns(w) PROVE TypeOK'
    BY <2>14, <2>idle DEF HandlerReturns
  <2> QED
    BY <2>1, <2>2, <2>3, <2>4, <2>5, <2>6, <2>7, <2>8, <2>9, <2>10, <2>11,
       <2>12, <2>13, <2>14, SchedulerConstants
    DEF Next, FailRead, HandlerRaises, FactoryLimit
<1>3. QED BY <1>1, <1>2, PTL DEF Spec

(***************************************************************************)
(* However many workers race, status and lock columns agree: no helper can *)
(* leave a lock on a row that is not RUNNING, or a RUNNING row without the *)
(* lock release_stale_locks looks for.                                     *)
(***************************************************************************)
RowCoherent(row) ==
  /\ (row.status = "RUNNING") <=> (row.lockedAt # NoTime)
  /\ (row.lockedAt # NoTime) <=> (row.owner # "none")

LEMMA UnlockedCoherent ==
  ASSUME NEW row \in Row, NEW s \in (ActiveStatus \cup TerminalStatus) \ {"RUNNING"}
  PROVE  RowCoherent(Unlocked(row, s))
BY DEF Unlocked, Row, RowCoherent

LEMMA ClosedCoherent ==
  ASSUME NEW row \in Row, NEW s \in {"CANCELLED", "SUCCEEDED", "FAILED"}
  PROVE  RowCoherent(ClosedRow(row, s))
<1>1. Unlocked(row, s) \in Row /\ RowCoherent(Unlocked(row, s))
  BY UnlockedRow, UnlockedCoherent DEF TerminalStatus
<1> QED BY <1>1 DEF ClosedRow, Row, RowCoherent

LEMMA FailedCoherent ==
  ASSUME NEW row \in Row, NEW seen \in Row, NEW at \in Nat, NEW limit \in Nat
  PROVE  RowCoherent(FailedRow(row, seen, at, limit))
<1>1. /\ Unlocked(row, "COOLDOWN") \in Row
      /\ RowCoherent(Unlocked(row, "COOLDOWN"))
      /\ Unlocked(row, "FAILED") \in Row
      /\ RowCoherent(Unlocked(row, "FAILED"))
  BY UnlockedRow, UnlockedCoherent DEF ActiveStatus, TerminalStatus
<1>2. CASE ShouldCooldown(seen.retries + 1, limit)
  BY <1>1, <1>2 DEF FailedRow, Row, RowCoherent
<1>3. CASE ~ShouldCooldown(seen.retries + 1, limit)
  BY <1>1, <1>3 DEF FailedRow, Row, RowCoherent
<1> QED BY <1>2, <1>3

THEOREM LockAlwaysCoherent == Spec => []LockCoherent
<1> DEFINE Inv == \A j \in Job : RowCoherent(jobs[j])
<1>1. Inv <=> LockCoherent
  BY DEF LockCoherent, RowCoherent
<1>2. Init => Inv
  BY DEF Init, RowCoherent, AbsentRow, NoTime
<1>3. TypeOK /\ Inv /\ [Next]_vars => Inv'
  <2> SUFFICES ASSUME TypeOK, Inv, [Next]_vars PROVE Inv'
    OBVIOUS
  <2> USE DEF TypeOK
  <2>1. ASSUME NEW w \in Worker, NEW j \in Job, NEW due, EnqueueInsert(w, j, due)
        PROVE  Inv'
    BY <2>1 DEF EnqueueInsert, RowCoherent, NoTime
  <2>2. ASSUME NEW w \in Worker, ClaimWrite(w) PROVE Inv'
    <3>1. worker[w].job \in Job /\ worker[w].at \in Nat
      BY <2>2 DEF ClaimWrite, WorkerState
    <3>2. RowCoherent(Locked(jobs[worker[w].job], w, worker[w].at))
      BY <3>1, SchedulerConstants DEF RowCoherent, Locked, Row, NoTime
    <3> QED BY <2>2, <3>1, <3>2 DEF ClaimWrite
  <2>3. ASSUME NEW w \in Worker, Complete(w) PROVE Inv'
    <3>1. worker[w].job \in Job
      BY <2>3 DEF Complete, WorkerState
    <3>2. RowCoherent(Unlocked(jobs[worker[w].job], "SUCCEEDED"))
      BY <3>1, UnlockedCoherent DEF TerminalStatus
    <3> QED BY <2>3, <3>1, <3>2 DEF Complete
  <2>4. ASSUME NEW w \in Worker, FailWrite(w) PROVE Inv'
    <3>1. /\ worker[w].job \in Job /\ worker[w].at \in Nat /\ worker[w].row \in Row
          /\ worker[w].limit \in Nat
      BY <2>4 DEF FailWrite, WorkerState
    <3>2. RowCoherent(FailedRow(jobs[worker[w].job], worker[w].row, worker[w].at,
                                worker[w].limit))
      BY <3>1, FailedCoherent
    <3> QED BY <2>4, <3>1, <3>2 DEF FailWrite
  <2>5. ASSUME NEW w \in Worker, NEW s \in {"CANCELLED", "SUCCEEDED", "FAILED"},
               CloseWrite(w, s)
        PROVE  Inv'
    <3>1. worker[w].job \in Job
      BY <2>5 DEF CloseWrite, WorkerState
    <3>2. RowCoherent(ClosedRow(jobs[worker[w].job], s))
      BY <3>1, ClosedCoherent
    <3> QED BY <2>5, <3>1, <3>2 DEF CloseWrite
  <2>6. ASSUME NEW w \in Worker, ReleaseStaleLocks(w) PROVE Inv'
    BY <2>6, UnlockedCoherent DEF ReleaseStaleLocks, ActiveStatus
  <2>7. ASSUME UNCHANGED jobs PROVE Inv'
    BY <2>7
  <2> QED
    BY <2>1, <2>2, <2>3, <2>4, <2>5, <2>6, <2>7
    DEF Next, vars, EnqueueCheck, ClaimRead, FailRead, HandlerRaises, FailSelect,
        HandlerReturns, CloseRead, Crash, Tick
<1> QED BY <1>1, <1>2, <1>3, TypeCorrect, PTL DEF Spec

(***************************************************************************)
(* The rest is about the deployment the code is written for: one worker at *)
(* a time calls the helpers.                                               *)
(***************************************************************************)
SingleWorker == \A v, w \in Worker : v = w

(***************************************************************************)
(* With one worker, what a helper read is still true when it writes, a     *)
(* handler knows what became of its job, no two active rows share a        *)
(* duplicate key and the retry budget is respected, across crashes, stale  *)
(* releases and a handler that fails the job it has closed.                *)
(***************************************************************************)
THEOREM SingleWorkerInvariant == SingleWorker => (Spec => []SingleWorkerInv)
<1> SUFFICES ASSUME SingleWorker PROVE Spec => []SingleWorkerInv
  OBVIOUS
<1> USE DEF SingleWorkerInv
<1>1. Init => SingleWorkerInv
  BY SchedulerConstants
  DEF Init, SeenStillTrue, NoDuplicateActive, ActiveBudget,
      RetryBudget, AbsentRow, Idle, ActiveStatus
<1>2. TypeOK /\ SingleWorkerInv /\ [Next]_vars => SingleWorkerInv'
  <2> SUFFICES ASSUME TypeOK, SingleWorkerInv, [Next]_vars PROVE SingleWorkerInv'
    OBVIOUS
  <2> USE SchedulerConstants DEF TypeOK
  <2>1. ASSUME NEW w \in Worker, NEW k \in Key, EnqueueCheck(w, k)
        PROVE  SingleWorkerInv'
    BY <2>1 DEF EnqueueCheck, SingleWorker, SeenStillTrue,
                NoDuplicateActive, ActiveBudget, RetryBudget, HasActiveDuplicate
  <2>2. ASSUME NEW w \in Worker, NEW j \in Job, NEW due \in Nat, EnqueueInsert(w, j, due)
        PROVE  SingleWorkerInv'
    <3> DEFINE k == worker[w].key
    <3>1. k \in Key /\ ~HasActiveDuplicate(k)
      BY <2>2 DEF EnqueueInsert, WorkerState, SeenStillTrue
    <3>2. /\ jobs' = [jobs EXCEPT ![j] =
              [status |-> "PENDING", key |-> k, due |-> due,
               owner |-> "none", lockedAt |-> NoTime, retries |-> 0]]
          /\ worker' = [worker EXCEPT ![w] = Idle]
      BY <2>2 DEF EnqueueInsert
    <3> HIDE DEF k
    <3>3. \A v \in Worker : worker'[v] = Idle
      BY <3>2 DEF SingleWorker
    <3>4. (\A v \in Worker : SeenStillTrue(v))'
      BY <3>3 DEF SeenStillTrue, Idle
    <3>5. NoDuplicateActive'
      BY <3>1, <3>2 DEF NoDuplicateActive, HasActiveDuplicate
    <3>6. ActiveBudget' /\ RetryBudget'
      BY <3>2 DEF ActiveBudget, RetryBudget
    <3> QED BY <3>4, <3>5, <3>6
  <2>3. ASSUME NEW w \in Worker, NEW j \in Job, ClaimRead(w, j)
        PROVE  SingleWorkerInv'
    BY <2>3 DEF ClaimRead, Claimable, SingleWorker, SeenStillTrue,
                NoDuplicateActive, ActiveBudget, RetryBudget, Row
  <2>4. ASSUME NEW w \in Worker, ClaimWrite(w)
        PROVE  SingleWorkerInv'
    <3>1. worker[w].job \in Job
      BY <2>4 DEF ClaimWrite, WorkerState
    <3> QED
      BY <2>4, <3>1 DEF ClaimWrite, Locked, SingleWorker, SeenStillTrue,
        NoDuplicateActive, ActiveBudget, RetryBudget, Row, ActiveStatus
  <2>5. ASSUME NEW w \in Worker, Complete(w)
        PROVE  SingleWorkerInv'
    <3>1. PICK j \in Job : j = worker[w].job /\ jobs[j] \in Row /\ jobs[j].status = "RUNNING"
      BY <2>5 DEF Complete, WorkerState, SeenStillTrue
    <3> DEFINE r == Unlocked(jobs[j], "SUCCEEDED")
    <3>2. jobs' = [jobs EXCEPT ![j] = r] /\ worker' = [worker EXCEPT ![w] = Handled(j)]
      BY <2>5, <3>1 DEF Complete
    <3>3. r.status = "SUCCEEDED" /\ r.retries = jobs[j].retries
      BY <3>1 DEF Unlocked, Row
    <3>4. jobs[j].retries \in Nat /\ (jobs[j].retries = 0 \/ jobs[j].retries < MaxRetries)
      BY <3>1 DEF Row, ActiveBudget, ActiveStatus
    <3> HIDE DEF r
    <3>5. \A v \in Worker : worker'[v] = Handled(j)
      BY <3>2 DEF SingleWorker
    <3>6. jobs'[j] = r /\ \A i \in Job \ {j} : jobs'[i] = jobs[i]
      BY <3>1, <3>2
    <3>7. ClosedByHandler(jobs[j])'
      BY <3>3, <3>4, <3>6 DEF ClosedByHandler
    <3>8. (\A v \in Worker : SeenStillTrue(v))'
      BY <3>5, <3>7 DEF SeenStillTrue, Handled, ClosedByHandler
    <3>9. NoDuplicateActive' /\ ActiveBudget' /\ RetryBudget'
      BY <3>1, <3>3, <3>4, <3>6 DEF NoDuplicateActive, ActiveBudget, RetryBudget, ActiveStatus
    <3> QED BY <3>8, <3>9
  <2>6. ASSUME NEW w \in Worker, NEW limit \in {FactoryLimit, MaxRetries},
               FailRead(w, limit) \/ HandlerRaises(w)
        PROVE  SingleWorkerInv'
    <3>1. PICK l \in {FactoryLimit, MaxRetries}, late \in BOOLEAN :
            /\ FailSelect(w, l, late)
            /\ late => l = FactoryLimit /\ worker[w].pc = "handled"
            /\ ~late => worker[w].pc = "work"
      BY <2>6 DEF FailRead, HandlerRaises
    <3>2. worker[w].job \in Job
      BY <3>1 DEF WorkerState
    <3>3. /\ jobs' = jobs /\ now' = now
          /\ \A v \in Worker : worker'[v] =
               [pc |-> "fail", job |-> worker[w].job, at |-> now,
                row |-> jobs[worker[w].job], limit |-> l, late |-> late]
      BY <3>1 DEF FailSelect, SingleWorker
    <3>4. late => ClosedByHandler(jobs[worker[w].job])
      BY <3>1 DEF SeenStillTrue
    <3>5. ~late => jobs[worker[w].job].status = "RUNNING"
      BY <3>1 DEF SeenStillTrue
    <3>6. (\A v \in Worker : SeenStillTrue(v))'
      BY <3>1, <3>3, <3>4, <3>5 DEF SeenStillTrue, ClosedByHandler, FactoryLimit
    <3>7. NoDuplicateActive' /\ ActiveBudget' /\ RetryBudget'
      BY <3>3 DEF NoDuplicateActive, ActiveBudget, RetryBudget
    <3> QED BY <3>6, <3>7
  <2>7. ASSUME NEW w \in Worker, FailWrite(w)
        PROVE  SingleWorkerInv'
    <3> DEFINE l == worker[w].limit
               late == worker[w].late
    <3>1. PICK j \in Job :
          /\ j = worker[w].job /\ worker[w].row = jobs[j] /\ jobs[j] \in Row
          /\ worker[w].at \in Nat /\ l \in {0, MaxRetries} /\ late \in BOOLEAN
          /\ ~late => jobs[j].status = "RUNNING"
          /\ late => l = 0 /\ ClosedByHandler(jobs[j])
      BY <2>7 DEF FailWrite, WorkerState, SeenStillTrue, FactoryLimit
    <3> DEFINE r == FailedRow(jobs[j], jobs[j], worker[w].at, l)
    <3>2. /\ jobs' = [jobs EXCEPT ![j] = r]
          /\ worker' = [worker EXCEPT ![w] = IF l = 0 /\ ~late THEN Handled(j) ELSE Idle]
      BY <2>7, <3>1 DEF FailWrite, FactoryLimit
    <3>3. /\ r.key = jobs[j].key
          /\ r.status = "COOLDOWN" => r.retries < MaxRetries /\ l = MaxRetries /\ l # 0
          /\ r.status \in {"COOLDOWN", "FAILED"}
          /\ r.retries = jobs[j].retries + 1
      BY <3>1 DEF FailedRow, ShouldCooldown, Unlocked, Row
    <3>4. /\ jobs[j].retries \in Nat
          /\ ~late => jobs[j].retries = 0 \/ jobs[j].retries < MaxRetries
          /\ jobs[j].retries <= 1 \/ jobs[j].retries <= MaxRetries
      BY <3>1 DEF Row, ActiveBudget, ActiveStatus, ClosedByHandler
    <3> HIDE DEF r, l, late
    <3>5. \A v \in Worker : worker'[v] = IF l = 0 /\ ~late THEN Handled(j) ELSE Idle
      BY <3>2 DEF SingleWorker
    <3>6. jobs'[j] = r /\ \A i \in Job \ {j} : jobs'[i] = jobs[i]
      BY <3>1, <3>2
    <3>7. l = 0 /\ ~late => ClosedByHandler(jobs[j])'
      BY <3>3, <3>4, <3>6 DEF ClosedByHandler
    <3>8. (\A v \in Worker : SeenStillTrue(v))'
      BY <3>5, <3>7 DEF SeenStillTrue, Handled, Idle, ClosedByHandler
    <3>9. r.status \in ActiveStatus => jobs[j].status \in ActiveStatus
      BY <3>1, <3>3 DEF ActiveStatus
    <3>10. NoDuplicateActive'
      BY <3>1, <3>3, <3>6, <3>9 DEF NoDuplicateActive
    <3>11. ActiveBudget' /\ RetryBudget'
      BY <3>1, <3>3, <3>4, <3>6 DEF ActiveBudget, RetryBudget, ActiveStatus
    <3> QED BY <3>8, <3>10, <3>11
  <2>8. ASSUME NEW w \in Worker, NEW j \in Job, CloseRead(w, j)
        PROVE  SingleWorkerInv'
    BY <2>8 DEF CloseRead, SingleWorker, SeenStillTrue,
                NoDuplicateActive, ActiveBudget, RetryBudget
  <2>9. ASSUME NEW w \in Worker, NEW s \in {"CANCELLED", "SUCCEEDED", "FAILED"},
               CloseWrite(w, s)
        PROVE  SingleWorkerInv'
    <3>1. worker[w].job \in Job /\ jobs[worker[w].job].status \in ActiveStatus
      BY <2>9 DEF CloseWrite, WorkerState, SeenStillTrue
    <3> QED
      BY <2>9, <3>1 DEF CloseWrite, ClosedRow, Unlocked, SingleWorker, SeenStillTrue,
        Idle, NoDuplicateActive, ActiveBudget, RetryBudget, Row,
        ActiveStatus
  <2>10. ASSUME NEW w \in Worker, ReleaseStaleLocks(w)
         PROVE  SingleWorkerInv'
    <3>1. jobs' = [j \in Job |-> IF Stale(jobs[j]) THEN Unlocked(jobs[j], "PENDING")
                                                  ELSE jobs[j]]
      BY <2>10 DEF ReleaseStaleLocks
    <3>2. \A v \in Worker : worker[v].pc = "idle" /\ worker'[v].pc = "idle"
      BY <2>10 DEF ReleaseStaleLocks, SingleWorker
    <3>3. \A j \in Job : /\ jobs'[j].key = jobs[j].key
                         /\ jobs'[j].retries = jobs[j].retries
                         /\ jobs'[j].status \in ActiveStatus
                              => jobs[j].status \in ActiveStatus
                         /\ jobs'[j].status = "COOLDOWN" => jobs[j].status = "COOLDOWN"
      BY <3>1 DEF Stale, Unlocked, Row, ActiveStatus
    <3>4. (\A v \in Worker : SeenStillTrue(v))'
      BY <3>2 DEF SeenStillTrue
    <3>5. NoDuplicateActive'
      BY <3>3 DEF NoDuplicateActive
    <3>6. ActiveBudget' /\ RetryBudget'
      BY <3>3 DEF ActiveBudget, RetryBudget
    <3> QED BY <3>4, <3>5, <3>6
  <2>11. ASSUME NEW w \in Worker, Crash(w)
         PROVE  SingleWorkerInv'
    BY <2>11 DEF Crash, Idle, SingleWorker, SeenStillTrue,
      NoDuplicateActive, ActiveBudget, RetryBudget
  <2>12. CASE Tick
    BY <2>12 DEF Tick, SeenStillTrue, NoDuplicateActive,
      ActiveBudget, RetryBudget, HasActiveDuplicate, WorkerState
  <2>13. CASE UNCHANGED vars
    BY <2>13 DEF vars, SeenStillTrue, NoDuplicateActive,
      ActiveBudget, RetryBudget, HasActiveDuplicate
  <2>14. ASSUME NEW w \in Worker, HandlerReturns(w)
         PROVE  SingleWorkerInv'
    BY <2>14 DEF HandlerReturns, Idle, SingleWorker, SeenStillTrue, NoDuplicateActive,
      ActiveBudget, RetryBudget
  <2>15. \A delay \in {0, 1} : now + delay \in Nat
    OBVIOUS
  <2> QED
    BY <2>1, <2>2, <2>3, <2>4, <2>5, <2>6, <2>7, <2>8, <2>9, <2>10, <2>11, <2>12,
       <2>13, <2>14, <2>15 DEF Next
<1> QED BY <1>1, <1>2, TypeCorrect, PTL DEF Spec

(***************************************************************************)
(* With one worker the retry budget holds: fail_job never sends a job that *)
(* has used its max_retries into another cooldown.                         *)
(***************************************************************************)
THEOREM RetryBudgetHolds == SingleWorker => (Spec => []RetryBudget)
<1>1. SingleWorkerInv => RetryBudget
  BY DEF SingleWorkerInv
<1> QED BY <1>1, SingleWorkerInvariant, PTL

(***************************************************************************)
(* With one worker a claim never cuts a cooldown short: claim_due_job      *)
(* starts a job only when the due time fail_job gave it has come.          *)
(***************************************************************************)
THEOREM CooldownIsHonoured == SingleWorker => (Spec => CooldownHonoured)
<1> DEFINE Honours == \A j \in Job :
             jobs[j].status # "RUNNING" /\ jobs'[j].status = "RUNNING"
               => jobs[j].due <= now
<1>1. TypeOK /\ SingleWorkerInv /\ [Next]_vars => [Honours]_vars
  <2> SUFFICES ASSUME TypeOK, SingleWorkerInv, Next,
                      NEW j \in Job,
                      jobs[j].status # "RUNNING", jobs'[j].status = "RUNNING"
               PROVE  jobs[j].due <= now
    OBVIOUS
  <2> USE DEF TypeOK
  <2>1. ASSUME NEW w \in Worker, ClaimWrite(w) PROVE jobs[j].due <= now
    <3>1. worker[w].job = j
      BY <2>1 DEF ClaimWrite
    <3>2. jobs[j].due <= worker[w].at /\ worker[w].at <= now
      BY <2>1, <3>1 DEF ClaimWrite, SingleWorkerInv, SeenStillTrue
    <3>3. jobs[j].due \in Nat /\ worker[w].at \in Nat
      BY <2>1 DEF Row, ClaimWrite, WorkerState
    <3> QED BY <3>2, <3>3
  <2>2. ASSUME NEW w \in Worker,
               \/ \E k \in Key : EnqueueCheck(w, k)
               \/ \E i \in Job : ClaimRead(w, i) \/ CloseRead(w, i)
               \/ \E limit \in {FactoryLimit, MaxRetries} : FailRead(w, limit)
               \/ HandlerRaises(w) \/ HandlerReturns(w) \/ Crash(w)
        PROVE  FALSE
    BY <2>2 DEF EnqueueCheck, ClaimRead, CloseRead, FailRead, HandlerRaises, FailSelect,
       HandlerReturns, Crash
  <2>3. ASSUME NEW w \in Worker, NEW i \in Job, NEW due, EnqueueInsert(w, i, due)
        PROVE  FALSE
    BY <2>3 DEF EnqueueInsert
  <2>6. ASSUME NEW w \in Worker, Complete(w) PROVE FALSE
    BY <2>6 DEF Complete, Unlocked, Row
  <2>7. ASSUME NEW w \in Worker, NEW s \in {"CANCELLED", "SUCCEEDED", "FAILED"},
               CloseWrite(w, s)
        PROVE  FALSE
    BY <2>7 DEF CloseWrite, ClosedRow, Unlocked, Row
  <2>4. ASSUME NEW w \in Worker, FailWrite(w) PROVE FALSE
    <3>1. /\ worker[w].job \in Job /\ worker[w].at \in Nat /\ worker[w].row \in Row
          /\ worker[w].limit \in Nat
      BY <2>4 DEF FailWrite, WorkerState
    <3> QED BY <2>4, <3>1, FailedRowKeepsKey DEF FailWrite
  <2>5. ASSUME NEW w \in Worker, ReleaseStaleLocks(w) PROVE FALSE
    BY <2>5 DEF ReleaseStaleLocks, Unlocked, Row
  <2> QED
    BY <2>1, <2>2, <2>3, <2>4, <2>5, <2>6, <2>7 DEF Next, Tick
<1> QED BY <1>1, SingleWorkerInvariant, TypeCorrect, PTL DEF CooldownHonoured, Spec

(***************************************************************************)
(* With one worker the table implements the abstract lifecycle: every step *)
(* of a helper is a step of JobLifecycle or changes no status at all.  The *)
(* fail_job of a handler that has closed its job has no guard, and maps to *)
(* TakeBack or to a stutter: it never gives a finished job another attempt.*)
(***************************************************************************)
THEOREM SchedulerImplementsLifecycle == SingleWorker => (Spec => Lifecycle)
<1> USE DEF Abstract!ActiveStatus, ActiveStatus
<1>1. Init => Abstract!Init
  BY DEF Init, Abstract!Init, AbsentRow
<1>2. TypeOK /\ SingleWorkerInv /\ [Next]_vars => [Abstract!Next]_(Abstract!absVars)
  <2> SUFFICES ASSUME TypeOK, SingleWorkerInv, [Next]_vars
               PROVE  [Abstract!Next]_(Abstract!absVars)
    OBVIOUS
  <2> USE DEF TypeOK
  <2>1. ASSUME NEW w \in Worker, NEW j \in Job, NEW due, EnqueueInsert(w, j, due)
        PROVE  Abstract!Next
    <3>1. PICK k \in Key : k = worker[w].key /\ ~HasActiveDuplicate(k)
      BY <2>1 DEF EnqueueInsert, WorkerState, SingleWorkerInv, SeenStillTrue
    <3>2. Abstract!Insert(j, k)
      BY <2>1, <3>1 DEF EnqueueInsert, Abstract!Insert, HasActiveDuplicate
    <3> QED BY <3>2 DEF Abstract!Next
  <2>2. ASSUME NEW w \in Worker, ClaimWrite(w)
        PROVE  Abstract!Next
    <3>1. PICK j \in Job : /\ j = worker[w].job
                          /\ jobs[j].status \in {"PENDING", "COOLDOWN"}
      BY <2>2 DEF ClaimWrite, WorkerState, SingleWorkerInv, SeenStillTrue
    <3>2. Abstract!Claim(j)
      BY <2>2, <3>1 DEF ClaimWrite, Locked, Row, Abstract!Claim, Abstract!Move
    <3> QED BY <3>2 DEF Abstract!Next
  <2>3. ASSUME NEW w \in Worker, Complete(w)
        PROVE  Abstract!Next
    <3>1. PICK j \in Job : j = worker[w].job /\ jobs[j].status = "RUNNING"
      BY <2>3 DEF Complete, WorkerState, SingleWorkerInv, SeenStillTrue
    <3>2. Abstract!Close(j)
      BY <2>3, <3>1 DEF Complete, Unlocked, Row, Abstract!Close, Abstract!Move
    <3> QED BY <3>2 DEF Abstract!Next
  <2>4. ASSUME NEW w \in Worker, FailWrite(w)
        PROVE  [Abstract!Next]_(Abstract!absVars)
    <3>1. PICK j \in Job : /\ j = worker[w].job /\ worker[w].row = jobs[j]
                          /\ worker[w].at \in Nat /\ worker[w].limit \in Nat
                          /\ jobs[j] \in Row
      BY <2>4 DEF FailWrite, WorkerState, SingleWorkerInv, SeenStillTrue
    <3> DEFINE row == FailedRow(jobs[j], jobs[j], worker[w].at, worker[w].limit)
    <3>2. jobs' = [jobs EXCEPT ![j] = row]
      BY <2>4, <3>1 DEF FailWrite
    <3>3. /\ row.status \in {"COOLDOWN", "FAILED"} /\ row.key = jobs[j].key
          /\ worker[w].limit = 0 => row.status = "FAILED"
      BY <3>1, FailedRowKeepsKey DEF FailedRow, ShouldCooldown, Unlocked, Row
    <3>4. \/ jobs[j].status = "RUNNING"
          \/ worker[w].limit = 0 /\ jobs[j].status \in {"SUCCEEDED", "FAILED"}
      BY <2>4, <3>1
      DEF FailWrite, WorkerState, SingleWorkerInv, SeenStillTrue, ClosedByHandler, FactoryLimit
    <3> HIDE DEF row
    <3>5. \A i \in Job : jobs'[i].key = jobs[i].key
      BY <3>2, <3>3
    <3>6. CASE jobs[j].status = "RUNNING"
      <4>1. Abstract!Retry(j) \/ Abstract!Close(j)
        BY <3>2, <3>3, <3>5, <3>6 DEF Abstract!Retry, Abstract!Close, Abstract!Move
      <4> QED BY <4>1 DEF Abstract!Next
    <3>7. CASE jobs[j].status = "SUCCEEDED" /\ row.status = "FAILED"
      <4>1. Abstract!TakeBack(j)
        BY <3>2, <3>5, <3>7 DEF Abstract!TakeBack, Abstract!Move
      <4> QED BY <4>1 DEF Abstract!Next
    <3>8. CASE jobs[j].status = "FAILED" /\ row.status = "FAILED"
      BY <3>2, <3>5, <3>8 DEF Abstract!absVars
    <3> QED BY <3>3, <3>4, <3>6, <3>7, <3>8
  <2>5. ASSUME NEW w \in Worker, NEW s \in {"CANCELLED", "SUCCEEDED", "FAILED"},
               CloseWrite(w, s)
        PROVE  Abstract!Next
    <3>1. PICK j \in Job : j = worker[w].job /\ jobs[j].status \in ActiveStatus
      BY <2>5 DEF CloseWrite, WorkerState, SingleWorkerInv, SeenStillTrue
    <3>2. Abstract!Close(j)
      BY <2>5, <3>1 DEF CloseWrite, ClosedRow, Unlocked, Row, Abstract!Close, Abstract!Move
    <3> QED BY <3>2 DEF Abstract!Next
  <2>6. ASSUME NEW w \in Worker, ReleaseStaleLocks(w)
        PROVE  Abstract!Next
    <3> DEFINE S == {j \in Job : Stale(jobs[j])}
    <3>1. jobs' = [j \in Job |-> IF Stale(jobs[j]) THEN Unlocked(jobs[j], "PENDING")
                                                  ELSE jobs[j]]
      BY <2>6 DEF ReleaseStaleLocks
    <3>2. \A j \in Job : /\ jobs'[j].key = jobs[j].key
                         /\ j \in S => jobs[j].status = "RUNNING"
                         /\ jobs'[j].status = IF j \in S THEN "PENDING"
                                                         ELSE jobs[j].status
      BY <3>1 DEF Stale, Unlocked, Row
    <3>3. PICK T \in SUBSET Job : T = S
      OBVIOUS
    <3>4. Abstract!Release(T)
      <4> HIDE DEF S
      <4> QED BY <3>2, <3>3 DEF Abstract!Release
    <3> QED BY <3>4 DEF Abstract!Next
  <2>7. ASSUME UNCHANGED jobs PROVE UNCHANGED Abstract!absVars
    BY <2>7 DEF Abstract!absVars
  <2> QED
    BY <2>1, <2>2, <2>3, <2>4, <2>5, <2>6, <2>7
    DEF Next, vars, EnqueueCheck, ClaimRead, FailRead, HandlerRaises, FailSelect,
        HandlerReturns, CloseRead, Crash, Tick
<1> QED
  BY <1>1, <1>2, SingleWorkerInvariant, TypeCorrect, PTL
  DEF Lifecycle, Abstract!Spec, Spec
=============================================================================
