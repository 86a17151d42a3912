----------------------------- MODULE FactoryRun -----------------------------
(***************************************************************************)
(* The one-command memory factory (operator_cli/one_command_15m_factory.py)*)
(* drives one run over a few tokens.  It plans the steps of each token in  *)
(* printer_memory_factory_run_steps, each with its own row of              *)
(* printer_scheduler_jobs, and executes them one at a time.                *)
(*                                                                         *)
(* Both tables are kept here: steps and jobs hold the committed rows.  An  *)
(* action is everything between two commits of the factory's connection.   *)
(* One SNAPSHOT and one CONTINUATION_SNAPSHOT stand for the many of a      *)
(* token; what the sources answer is a choice.  A step's due time is only  *)
(* used to order the steps: Before says what every schedule guarantees.    *)
(***************************************************************************)
EXTENDS Naturals, FiniteSets

CONSTANTS N,           \* selected tokens
          SelectiveHour \* config selective_1h_continuation

ASSUME FactoryAssumption == N \in Nat \ {0} /\ SelectiveHour \in BOOLEAN

VARIABLES steps,       \* step_status of each row of run_steps
          jobs,        \* status of the Scheduler job of each row
          pc,          \* where run_one_command_15m_factory is
          current,     \* the step being executed
          stop,        \* stop_reason
          runStatus,   \* run_status of the row of printer_memory_factory_runs
          continuing   \* tokens whose slot moved to WINDOW_1H_CONTINUING

vars == <<steps, jobs, pc, current, stop, runStatus, continuing>>

Token    == 1..N
StepKind == {"OPENING", "SNAPSHOT", "WINDOW_CLOSE",
             "CONTINUATION_SNAPSHOT", "CONTINUATION_CLOSE"}
Step     == Token \X StepKind
NoStep   == <<0, "none">>

Status     == {"ABSENT", "PENDING", "RUNNING", "SUCCEEDED", "FAILED", "CANCELLED"}
StopReason == {"COMPLETED", "EMPTY", "DURATION", "AMBIGUOUS", "BUDGET",
               "PREFLIGHT", "EXTERNAL", "INTERRUPTED"}
Place      == {"planning", "loop", "step", "barrier", "schedule", "stopping",
               "reporting", "finished", "raised", "crashed"}
RunStatus  == {"RUNNING", "COMPLETED", "SAFE_STOPPED", "FAILED"}

TypeOK ==
  /\ steps \in [Step -> Status]
  /\ jobs \in [Step -> Status]
  /\ pc \in Place
  /\ current \in Step \cup {NoStep}
  /\ stop \in StopReason
  /\ runStatus \in RunStatus
  /\ continuing \in SUBSET Token

Init ==
  /\ steps = [s \in Step |-> "ABSENT"]
  /\ jobs = [s \in Step |-> "ABSENT"]
  /\ pc = "planning"
  /\ current = NoStep
  /\ stop = "COMPLETED"
  /\ runStatus = "RUNNING"
  /\ continuing = {}

-----------------------------------------------------------------------------
\* The rows of a plan, and the writes to the two tables.

Opening(t) == <<t, "OPENING">>
Close(t)   == <<t, "WINDOW_CLOSE">>
Anchored(t)     == {<<t, "SNAPSHOT">>, Close(t)}
Continuation(t) == {<<t, "CONTINUATION_SNAPSHOT">>, <<t, "CONTINUATION_CLOSE">>}

\* The rows _insert_step_and_job has written when the row ceiling stops it.
PartOfAnchored(t)     == {{}, {<<t, "SNAPSHOT">>}}
PartOfContinuation(t) == {{}, {<<t, "CONTINUATION_SNAPSHOT">>}}

InStatus(S, v) == {s \in S : steps[s] = v}
OfToken(t) == {t} \X StepKind

Set(table, S, v) == [s \in Step |-> IF s \in S THEN v ELSE table[s]]

insert(table, S) == Set(table, S, "PENDING")
fail_job(table, s) == Set(table, {s}, "FAILED")
complete_job(table, s) == Set(table, {s}, "SUCCEEDED")
cancel_job(table, S) == Set(table, S, "CANCELLED")

Rank(k) == CASE k = "OPENING" -> 0
             [] k = "SNAPSHOT" -> 1
             [] k = "WINDOW_CLOSE" -> 2
             [] k = "CONTINUATION_SNAPSHOT" -> 3
             [] k = "CONTINUATION_CLOSE" -> 4

\* mutant: ORDER BY token_id, id
Before_TokenByToken_Bug(r, s) ==
  \/ r[1] < s[1]
  \/ r[1] = s[1] /\ Rank(r[2]) < Rank(s[2])

(***************************************************************************)
(* ORDER BY scheduled_for, id: the rows of a token are due one after the   *)
(* other, and every opening, due when planned, before what is anchored on  *)
(* a captured opening.                                                     *)
(***************************************************************************)
Before(r, s) ==
  \/ r[1] = s[1] /\ Rank(r[2]) < Rank(s[2])
  \/ r[2] = "OPENING" /\ s[2] = "OPENING" /\ r[1] < s[1]
  \/ r[2] = "OPENING" /\ s[2] # "OPENING"

NextPending(s) ==
  /\ steps[s] = "PENDING"
  /\ \A r \in InStatus(Step, "PENDING") : ~Before(r, s)

-----------------------------------------------------------------------------
\* Discovery hands over at most N targets; the run plans their openings.
PlanOpenings ==
  /\ pc = "planning"
  /\ \E m \in 0..N :
       /\ steps' = insert(steps, {Opening(t) : t \in 1..m})
       /\ jobs' = insert(jobs, {Opening(t) : t \in 1..m})
       /\ stop' = IF m = 0 THEN "EMPTY" ELSE stop
       /\ pc' = IF m = 0 THEN "stopping" ELSE "loop"
  /\ UNCHANGED <<current, runStatus, continuing>>

PlanningStops ==
  /\ pc = "planning"
  /\ stop' \in {"EXTERNAL", "INTERRUPTED", "PREFLIGHT"}
  /\ pc' = "stopping"
  /\ UNCHANGED <<steps, jobs, current, runStatus, continuing>>

\* mutant: continue for break
NothingPending_Continues_Bug ==
  /\ pc = "loop"
  /\ InStatus(Step, "PENDING") = {}
  /\ UNCHANGED vars

NothingPending ==
  /\ pc = "loop"
  /\ InStatus(Step, "PENDING") = {}
  /\ pc' = "stopping"
  /\ UNCHANGED <<steps, jobs, current, stop, runStatus, continuing>>

\* mutant: leaves the loop without its stop_reason
LoopStops_KeepsReason_Bug ==
  /\ pc = "loop"
  /\ InStatus(Step, "PENDING") # {}
  /\ pc' = "stopping"
  /\ UNCHANGED <<steps, jobs, current, stop, runStatus, continuing>>

(***************************************************************************)
(* The loop stops between two steps: out of time, told to stop while it    *)
(* sleeps, unable to claim (claim_due_job reads the clock again), or by an *)
(* exception of its own, outside the handlers of a step (PREFLIGHT).       *)
(***************************************************************************)
LoopStops ==
  /\ pc = "loop"
  /\ InStatus(Step, "PENDING") # {}
  /\ stop' \in {"DURATION", "EXTERNAL", "INTERRUPTED", "AMBIGUOUS", "PREFLIGHT"}
  /\ pc' = "stopping"
  /\ UNCHANGED <<steps, jobs, current, runStatus, continuing>>

Claim(s) ==
  /\ pc = "loop"
  /\ NextPending(s)
  /\ jobs[s] = "PENDING"
  /\ jobs' = Set(jobs, {s}, "RUNNING")
  /\ steps' = Set(steps, {s}, "RUNNING")
  /\ current' = s
  /\ pc' = "step"
  /\ UNCHANGED <<stop, runStatus, continuing>>

-----------------------------------------------------------------------------
\* One step.

(***************************************************************************)
(* _ExternalStop and KeyboardInterrupt pass every handler of the step: the *)
(* row and its job stay RUNNING.                                           *)
(***************************************************************************)
StepInterrupted ==
  /\ \/ pc = "step" /\ stop' \in {"EXTERNAL", "INTERRUPTED"}
     \/ pc \in {"barrier", "schedule"} /\ stop' = "INTERRUPTED"
  /\ pc' = "stopping"
  /\ UNCHANGED <<steps, jobs, current, runStatus, continuing>>

(***************************************************************************)
(* A projected breach of a ceiling, before the step or while it plans.     *)
(***************************************************************************)
GlobalStop(added) ==
  /\ steps' = insert(Set(steps, {current}, "FAILED"), added)
  /\ jobs' = insert(fail_job(jobs, current), added)
  /\ stop' = "BUDGET"
  /\ pc' = "stopping"
  /\ UNCHANGED <<current, runStatus, continuing>>

StepOverBudget ==
  /\ pc = "step"
  /\ \/ GlobalStop({})
     \/ current[2] = "OPENING" /\ \E p \in PartOfAnchored(current[1]) : GlobalStop(p)

\* mutants: the job is forgotten; every pending row is cancelled
TokenFails_ForgetsJob_Bug ==
  LET dropped == InStatus(OfToken(current[1]), "PENDING")
  IN  /\ steps' = Set(Set(steps, {current}, "FAILED"), dropped, "CANCELLED")
      /\ jobs' = cancel_job(jobs, dropped)
      /\ pc' = "loop"
      /\ current' = NoStep
      /\ UNCHANGED <<stop, runStatus>>

TokenFails_CancelsAll_Bug ==
  LET dropped == InStatus(Step, "PENDING")
  IN  /\ steps' = Set(Set(steps, {current}, "FAILED"), dropped, "CANCELLED")
      /\ jobs' = cancel_job(fail_job(jobs, current), dropped)
      /\ pc' = "loop"
      /\ current' = NoStep
      /\ UNCHANGED <<stop, runStatus>>

(***************************************************************************)
(* A failure of one token: its pending rows are cancelled, the run goes on.*)
(***************************************************************************)
TokenFails ==
  LET dropped == InStatus(OfToken(current[1]), "PENDING")
  IN  /\ steps' = Set(Set(steps, {current}, "FAILED"), dropped, "CANCELLED")
      /\ jobs' = cancel_job(fail_job(jobs, current), dropped)
      /\ pc' = "loop"
      /\ current' = NoStep
      /\ UNCHANGED <<stop, runStatus>>

StepFails == pc = "step" /\ TokenFails /\ UNCHANGED continuing

StepSucceeds ==
  /\ pc = "step"
  /\ LET added == IF current[2] = "OPENING" THEN Anchored(current[1]) ELSE {}
     IN  /\ steps' = insert(Set(steps, {current}, "SUCCEEDED"), added)
         /\ jobs' = insert(complete_job(jobs, current), added)
  /\ IF current[2] = "WINDOW_CLOSE" /\ SelectiveHour
       THEN pc' = "barrier" /\ UNCHANGED current
       ELSE pc' = "loop" /\ current' = NoStep
  /\ UNCHANGED <<stop, runStatus, continuing>>

-----------------------------------------------------------------------------
\* _run_selective_1h_campaign_barrier, after the close was committed.

Activated == {t \in Token : steps[Close(t)] # "ABSENT"}
Closed    == {t \in Token : steps[Close(t)] = "SUCCEEDED"}

BarrierDefers ==
  /\ pc = "barrier"
  /\ Closed # Activated
  /\ pc' = "loop"
  /\ current' = NoStep
  /\ UNCHANGED <<steps, jobs, stop, runStatus, continuing>>

(***************************************************************************)
(* evaluate_selective_1h_for_cycle commits the slot of each token that may *)
(* continue.  If it raises, the handler of the step takes it for a failure *)
(* of the token that closed last; the slots it has moved stay moved.       *)
(***************************************************************************)
Evaluate ==
  /\ pc = "barrier"
  /\ Closed = Activated
  /\ continuing' \in SUBSET Closed
  /\ pc' = "schedule"
  /\ UNCHANGED <<steps, jobs, current, stop, runStatus>>

EvaluateFails ==
  /\ pc = "barrier"
  /\ Closed = Activated
  /\ continuing' \in SUBSET Closed
  /\ TokenFails

ScheduleContinuations ==
  /\ pc = "schedule"
  /\ LET added == UNION {Continuation(t) : t \in continuing}
     IN  /\ steps' = insert(steps, added)
         /\ jobs' = insert(jobs, added)
  /\ pc' = "loop"
  /\ current' = NoStep
  /\ UNCHANGED <<stop, runStatus, continuing>>

(***************************************************************************)
(* The plan of token t cannot be made: the rows of the tokens before it,   *)
(* and what a row ceiling let in for t, are committed by the handler.      *)
(***************************************************************************)
PlannedBefore(t) == UNION {Continuation(u) : u \in {v \in continuing : v < t}}

\* mutant: rows of the failing plan are kept
ScheduleFails_KeepsPart_Bug ==
  /\ pc = "schedule"
  /\ \E t \in continuing : \E part \in PartOfContinuation(t) :
       LET added == PlannedBefore(t) \cup part
       IN  /\ steps' = Set(insert(steps, added), {current}, "FAILED")
           /\ jobs' = fail_job(insert(jobs, added), current)
  /\ pc' = "loop"
  /\ current' = NoStep
  /\ UNCHANGED <<stop, runStatus, continuing>>

ScheduleFails ==
  /\ pc = "schedule"
  /\ \E t \in continuing :
       LET added   == PlannedBefore(t)
           dropped == {s \in OfToken(current[1]) : s \in added}
       IN  /\ steps' = Set(Set(insert(steps, added), {current}, "FAILED"),
                           dropped, "CANCELLED")
           /\ jobs' = cancel_job(fail_job(insert(jobs, added), current), dropped)
  /\ pc' = "loop"
  /\ current' = NoStep
  /\ UNCHANGED <<stop, runStatus, continuing>>

ScheduleOverBudget ==
  /\ pc = "schedule"
  /\ \E t \in continuing : \E part \in PartOfContinuation(t) :
       GlobalStop(PlannedBefore(t) \cup part)

-----------------------------------------------------------------------------
\* The finally block.

\* mutant: the steps without their jobs
CancelPending_StepsOnly_Bug ==
  /\ pc = "stopping"
  /\ steps' = Set(steps, InStatus(Step, "PENDING"), "CANCELLED")
  /\ pc' = "reporting"
  /\ UNCHANGED <<jobs, current, stop, runStatus, continuing>>

CancelPending ==
  /\ pc = "stopping"
  /\ steps' = Set(steps, InStatus(Step, "PENDING"), "CANCELLED")
  /\ jobs' = cancel_job(jobs, InStatus(Step, "PENDING"))
  /\ pc' = "reporting"
  /\ UNCHANGED <<current, stop, runStatus, continuing>>

(***************************************************************************)
(* _primary_terminal_cause, then _apply_post_report_integrity.  A step that*)
(* failed with a source failure makes the run FAILED.                      *)
(***************************************************************************)
Active == {s \in Step : jobs[s] \in {"PENDING", "RUNNING"}}

RunVerdict ==
  (IF stop = "COMPLETED" /\ Active = {} THEN {"COMPLETED"} ELSE {"SAFE_STOPPED"})
    \cup (IF InStatus(Step, "FAILED") # {} THEN {"FAILED"} ELSE {})

FinalReport ==
  /\ pc = "reporting"
  /\ runStatus' \in RunVerdict
  /\ pc' = "finished"
  /\ UNCHANGED <<steps, jobs, current, stop, continuing>>

FinallyRaises ==
  /\ pc \in {"stopping", "reporting"}
  /\ pc' = "raised"
  /\ UNCHANGED <<steps, jobs, current, stop, runStatus, continuing>>

Crash ==
  /\ pc \notin {"finished", "raised", "crashed"}
  /\ pc' = "crashed"
  /\ UNCHANGED <<steps, jobs, current, stop, runStatus, continuing>>

Loop == NothingPending \/ LoopStops \/ \E s \in Step : Claim(s)
ExecuteStep == StepInterrupted \/ StepOverBudget \/ StepFails \/ StepSucceeds
Barrier == BarrierDefers \/ Evaluate \/ EvaluateFails
           \/ ScheduleContinuations \/ ScheduleFails \/ ScheduleOverBudget
Finally == CancelPending \/ FinalReport \/ FinallyRaises
Advance == PlanOpenings \/ PlanningStops \/ Loop \/ ExecuteStep \/ Barrier \/ Finally

Next == Advance \/ Crash

Spec == Init /\ [][Next]_vars

(***************************************************************************)
(* The factory is one thread with no wait but its sleeps.                  *)
(***************************************************************************)
FairSpec == Spec /\ WF_vars(Advance)

-----------------------------------------------------------------------------
\* Properties.

(***************************************************************************)
(* A row of run_steps and the row of its Scheduler job tell the same story *)
(* after every commit, whatever path ended the step: the factory writes    *)
(* them through different owners (_update_step, complete_job, fail_job,    *)
(* cancel_job), and recovery and preflight read only one of the two.       *)
(***************************************************************************)
StepJobParity == steps = jobs

(***************************************************************************)
(* At most one step is RUNNING, it is the one the loop holds, and none is  *)
(* left RUNNING when the loop looks for the next (sequential collection).  *)
(***************************************************************************)
OneAtATime ==
  /\ InStatus(Step, "RUNNING") \subseteq {current}
  /\ pc = "loop" => InStatus(Step, "RUNNING") = {}

(***************************************************************************)
(* The selective barrier: a continuation row exists only when no token has *)
(* an unfinished row of its first window.  The barrier counts the closes   *)
(* that were planned, so it relies on every opening being executed first.  *)
(***************************************************************************)
FirstWindow(t) == OfToken(t) \ Continuation(t)

BarrierHolds ==
  (\E t \in Token : \E s \in Continuation(t) : steps[s] # "ABSENT")
    => \A t \in Token : \A s \in FirstWindow(t) : steps[s] \notin {"PENDING", "RUNNING"}

(***************************************************************************)
(* A plan is all there or not at all (a close is never missing its         *)
(* snapshots, nor they their close), unless a ceiling ended the run.       *)
(***************************************************************************)
PlansAreWhole ==
  stop # "BUDGET" =>
    \A t \in Token : \A plan \in {Anchored(t), Continuation(t)} :
      (\E s \in plan : steps[s] = "ABSENT") => \A s \in plan : steps[s] = "ABSENT"

(***************************************************************************)
(* A run reported COMPLETED left no row unfinished, and dropped rows only  *)
(* of tokens that had a failure of their own.                              *)
(***************************************************************************)
CompletedIsHonest ==
  runStatus = "COMPLETED" =>
    \A s \in Step :
      /\ steps[s] \notin {"PENDING", "RUNNING"} /\ jobs[s] \notin {"PENDING", "RUNNING"}
      /\ steps[s] = "CANCELLED" => InStatus(OfToken(s[1]), "FAILED") # {}

(***************************************************************************)
(* Token isolation: whatever a step or the barrier does, rows other tokens *)
(* already have keep their status.                                         *)
(***************************************************************************)
TokenIsolation ==
  [][(pc \in {"step", "barrier", "schedule"}) =>
       \A s \in Step \ OfToken(current[1]) :
         (steps[s] # "ABSENT") => (steps'[s] = steps[s])]_vars

(***************************************************************************)
(* A close committed as SUCCEEDED stays so: a defect of the campaign-wide  *)
(* evaluation is not turned into a failure of the token that closed last.  *)
(***************************************************************************)
SuccessfulCloseStands ==
  [][\A t \in Token :
       (steps[Close(t)] = "SUCCEEDED") => (steps'[Close(t)] = "SUCCEEDED")]_vars

Onward(from, to) ==
  \/ from = to
  \/ from = "ABSENT" /\ to \in {"PENDING", "CANCELLED"}
  \/ from = "PENDING" /\ to \in {"RUNNING", "CANCELLED"}
  \/ from = "RUNNING" /\ to \in {"SUCCEEDED", "FAILED"}

CloseTakenBack(s) ==
  /\ pc \in {"barrier", "schedule"}
  /\ s = current /\ s[2] = "WINDOW_CLOSE"
  /\ steps[s] = "SUCCEEDED" /\ steps'[s] = "FAILED"

(***************************************************************************)
(* No row goes back but for finding 2: it is inserted once, claimed once   *)
(* and closed once, by whatever path, and the only terminal row that       *)
(* changes is the close in hand while the campaign is evaluated or its     *)
(* continuations are planned.                                              *)
(***************************************************************************)
RowsMoveForward ==
  [][\A s \in Step : Onward(steps[s], steps'[s]) \/ CloseTakenBack(s)]_vars

(***************************************************************************)
(* The run ends: it reports, its finally block raises, or the process died.*)
(***************************************************************************)
RunEnds == <>(pc \in {"finished", "raised", "crashed"})

Level(v) == CASE v = "ABSENT" -> 0
              [] v = "PENDING" -> 1
              [] v = "RUNNING" -> 2
              [] v = "SUCCEEDED" -> 3
              [] v \in {"FAILED", "CANCELLED"} -> 4

Stage(p) == CASE p = "planning" -> 0
              [] p = "step" -> 1
              [] p = "barrier" -> 2
              [] p = "schedule" -> 3
              [] p = "loop" -> 4
              [] p = "stopping" -> 5
              [] p = "reporting" -> 6
              [] p \in {"finished", "raised", "crashed"} -> 7

(***************************************************************************)
(* It cannot run for ever: no step of the loop lowers a row, and one that  *)
(* raises none takes the loop a place further, so a run of N tokens makes  *)
(* a bounded number of steps whatever fails on the way.                    *)
(***************************************************************************)
RunAdvances ==
  [][/\ \A s \in Step : Level(steps'[s]) >= Level(steps[s])
     /\ \/ \E s \in Step : Level(steps'[s]) > Level(steps[s])
        \/ Stage(pc') > Stage(pc)]_vars
=============================================================================
