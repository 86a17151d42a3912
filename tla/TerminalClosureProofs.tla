----------------------- MODULE TerminalClosureProofs -----------------------
(***************************************************************************)
(* Theorems about TerminalClosure, for every number of tokens, with and    *)
(* without the selective first hour.  They rest on the invariant of the    *)
(* factory that returned (FactoryRunProofs).                               *)
(***************************************************************************)
EXTENDS TerminalClosure, FactoryRunProofs

-----------------------------------------------------------------------------
(* The inductive invariant *)

(* What the finally block leaves: no row PENDING, and none RUNNING unless    *)
(* the run was stopped in the middle of a step.                              *)
QuietInv ==
  /\ pc \in {"stopping", "reporting", "finished"} /\ stop \notin {"EXTERNAL", "INTERRUPTED"} =>
       \A s \in Step : steps[s] # "RUNNING"
  /\ pc \in {"reporting", "finished"} => \A s \in Step : steps[s] # "PENDING"
  /\ pc = "finished" => runStatus # "RUNNING"

(* A job of the report is cancelled, or about to be.                         *)
ViewInv ==
  /\ view.runStatus # "RUNNING"
  /\ pc = "finished" => view.runStatus = runStatus
  /\ \A s \in Step : view.jobs[s] = IF s \in claimed THEN "CANCELLED" ELSE jobs[s]
  /\ \A s \in claimed : jobs[s] \in {"PENDING", "RUNNING", "CANCELLED"}

(* The only active row of a finished run is the step it was stopped in.      *)
LeftInv ==
  pc = "finished" =>
    \A s \in Step : steps[s] \in Unfinished \/ jobs[s] \in Unfinished =>
      s = current /\ steps[s] = "RUNNING" /\ stop \in {"EXTERNAL", "INTERRUPTED"}

ClosureInv ==
  /\ ClosureTypeOK
  /\ phase = "factory" => /\ FactoryInv /\ QuietInv
                          /\ owner = "RUNNING" /\ view = Committed
  /\ phase # "factory" =>
       /\ pc \in {"finished", "raised"} /\ owner # "RUNNING"
       /\ pc = "raised" => owner = "TERMINAL_FAILED"
       /\ pc = "finished" => runStatus # "RUNNING"
       /\ LeftInv
  /\ phase = "cleaned" => view = Committed
  /\ phase = "slots" => ViewInv
  /\ phase = "done" => runStatus # "RUNNING"
  /\ phase # "jobs"

-----------------------------------------------------------------------------
(* Steps *)

(* The factory keeps what its finally block promises.                        *)
LEMMA FactoryQuiet ==
  ASSUME FactoryInv, FactoryInv', QuietInv, Next PROVE QuietInv'
<1> USE DEF FactoryInv
<1>1. CASE pc' = pc
  <2>1. UNCHANGED <<steps, stop, runStatus>> \/ pc' \notin {"stopping", "reporting", "finished"}
    BY <1>1 DEF Next, Advance, Loop, ExecuteStep, Barrier, Finally, PlanOpenings, PlanningStops,
       NothingPending, LoopStops, Claim, StepInterrupted, StepOverBudget, GlobalStop, StepFails,
       TokenFails, StepSucceeds, BarrierDefers, Evaluate, EvaluateFails, ScheduleContinuations,
       ScheduleFails, ScheduleOverBudget, CancelPending, FinalReport, FinallyRaises, Crash
  <2> QED BY <1>1, <2>1 DEF QuietInv
<1>2. CASE PlanOpenings
  <2>1. PICK m \in 0..N : /\ steps' = Set(steps, {Opening(t) : t \in 1..m}, "PENDING")
                          /\ pc' \in {"stopping", "loop"}
    BY <1>2 DEF PlanOpenings, insert
  <2>2. \A s \in Step : steps[s] = "ABSENT"
    BY <1>2 DEF PlanOpenings, PlaceInv
  <2>3. \A s \in Step : steps'[s] # "RUNNING"
    BY <2>1, <2>2, SetRows
  <2> QED BY <2>1, <2>3 DEF QuietInv
<1>3. CASE PlanningStops \/ NothingPending \/ LoopStops
  <2>1. \A s \in Step : steps'[s] # "RUNNING"
    BY <1>3 DEF PlanningStops, NothingPending, LoopStops, PlaceInv
  <2>2. pc' = "stopping"
    BY <1>3 DEF PlanningStops, NothingPending, LoopStops
  <2> QED BY <2>1, <2>2 DEF QuietInv
<1>4. CASE StepInterrupted
  BY <1>4 DEF StepInterrupted, QuietInv
<1>5. CASE StepOverBudget \/ ScheduleOverBudget
  <2>1. \E added : GlobalStop(added)
    BY <1>5 DEF StepOverBudget, ScheduleOverBudget
  <2>2. PICK added : GlobalStop(added)
    BY <2>1
  <2>3. steps' = Set(Set(steps, {current}, "FAILED"), added, "PENDING")
    BY <2>2 DEF GlobalStop, insert
  <2>4. \A s \in Step : steps[s] = "RUNNING" => s = current
    BY DEF PlaceInv
  <2>5. \A s \in Step : steps'[s] # "RUNNING"
    BY <2>3, <2>4, SetRows
  <2> QED BY <2>2, <2>5 DEF QuietInv, GlobalStop
<1>6. CASE CancelPending
  <2>1. \A s \in Step : steps'[s] = IF steps[s] = "PENDING" THEN "CANCELLED" ELSE steps[s]
    <3>1. \A s \in Step : (s \in InStatus(Step, "PENDING")) <=> steps[s] = "PENDING"
      BY DEF InStatus
    <3> QED BY <1>6, <3>1, SetRows DEF CancelPending
  <2> QED BY <1>6, <2>1 DEF CancelPending, QuietInv
<1>7. CASE FinalReport
  <2>1. runStatus' # "RUNNING"
    BY <1>7 DEF FinalReport, RunVerdict
  <2> QED BY <1>7, <2>1 DEF FinalReport, QuietInv
<1>8. CASE pc' \notin {"stopping", "reporting", "finished"}
  BY <1>8 DEF QuietInv
<1> QED
  BY <1>1, <1>2, <1>3, <1>4, <1>5, <1>6, <1>7, <1>8
  DEF Next, Advance, Loop, ExecuteStep, Barrier, Finally, Claim, StepFails,
      TokenFails, StepSucceeds, BarrierDefers, Evaluate, EvaluateFails, ScheduleContinuations,
      ScheduleFails, FinallyRaises, Crash

(* Initially the factory has not begun, and nothing is closed.               *)
LEMMA ClosureInitInv == ClosureInit => ClosureInv
<1> SUFFICES ASSUME ClosureInit PROVE ClosureInv
  OBVIOUS
<1>1. FactoryInv
  BY InitTypes, InitRows DEF ClosureInit, FactoryInv, RowsInv
<1>2. QuietInv
  BY DEF ClosureInit, Init, QuietInv
<1> QED BY <1>1, <1>2 DEF ClosureInv, ClosureInit, ClosureTypeOK, Phase, Owner, Committed,
        FactoryInv, TypeOK, Init

(* The factory runs before the closure begins: it has returned by then.      *)
LEMMA FactoryFirst ==
  ASSUME ClosureInv, Factory PROVE phase = "factory" /\ phase' = "factory"
BY DEF ClosureInv, Factory, Next, Advance, Loop, ExecuteStep, Barrier, Finally, PlanOpenings,
   PlanningStops, NothingPending, LoopStops, Claim, StepInterrupted, StepOverBudget, StepFails,
   StepSucceeds, BarrierDefers, Evaluate, EvaluateFails, ScheduleContinuations, ScheduleFails,
   ScheduleOverBudget, CancelPending, FinalReport, FinallyRaises, Crash

(* Until then it keeps its own invariant.                                    *)
LEMMA FactoryKeeps ==
  ASSUME ClosureInv, Factory PROVE ClosureInv'
<1>1. phase = "factory" /\ phase' = "factory"
  BY FactoryFirst
<1>2. FactoryInv'
  BY <1>1, StepInv DEF ClosureInv, Factory
<1>3. QuietInv'
  BY <1>1, <1>2, FactoryQuiet DEF ClosureInv, Factory
<1>4. ClosureTypeOK'
  BY <1>2 DEF ClosureInv, ClosureTypeOK, Factory, FactoryInv, Committed, TypeOK
<1> QED BY <1>1, <1>2, <1>3, <1>4 DEF ClosureInv, Factory

(* The cleanup finds what the finally block left.                            *)
LEMMA CleanupKeeps ==
  ASSUME ClosureInv, Cleanup PROVE ClosureInv'
<1>1. /\ phase = "factory" /\ phase' = "cleaned" /\ pc \in {"finished", "raised"}
      /\ UNCHANGED vars /\ UNCHANGED <<view, settled, visited, claimed>>
      /\ owner' \in {"TERMINAL_FAILED", "TERMINAL_COMPLETED"}
      /\ pc = "raised" => owner' = "TERMINAL_FAILED"
  BY DEF Cleanup, RunFailed
<1>2. FactoryInv /\ QuietInv /\ view = Committed
  BY <1>1 DEF ClosureInv
<1>3. LeftInv'
  <2>1. steps = jobs /\ \A s \in Step : steps[s] = "RUNNING" => s = current
    BY <1>2 DEF FactoryInv, StepJobParity, PlaceInv
  <2> QED BY <1>1, <1>2, <2>1 DEF QuietInv, LeftInv, Unfinished, vars
<1>4. pc = "finished" => runStatus # "RUNNING"
  BY <1>2 DEF QuietInv
<1>5. ClosureTypeOK'
  BY <1>1 DEF ClosureInv, ClosureTypeOK, TypeOK, vars, Phase, Owner
<1> QED BY <1>1, <1>2, <1>3, <1>4, <1>5 DEF ClosureInv, Committed, vars

(* What is claimed to be cancelled is so in the open transaction.            *)
LEMMA CancelJobsKeeps ==
  ASSUME ClosureInv, CancelJobs PROVE ClosureInv'
<1>1. /\ phase = "cleaned" /\ phase' = "slots" /\ UNCHANGED <<vars, owner, settled, visited>>
      /\ view = Committed /\ claimed' = Active
      /\ view'.jobs = cancel_job(jobs, Active)
      /\ view'.runStatus = IF runStatus = "RUNNING" THEN "SAFE_STOPPED" ELSE runStatus
      /\ view' = [jobs |-> cancel_job(view.jobs, Active),
                  runStatus |-> IF view.runStatus = "RUNNING" THEN "SAFE_STOPPED"
                                                              ELSE view.runStatus]
  BY DEF CancelJobs, ClosureInv, Committed
<1>2. \A s \in Step : cancel_job(jobs, Active)[s] = IF s \in Active THEN "CANCELLED" ELSE jobs[s]
  BY SetRows DEF cancel_job
<1>3. cancel_job(jobs, Active) \in [Step -> Status] /\ Active \subseteq Step
  BY SetType DEF ClosureInv, ClosureTypeOK, TypeOK, cancel_job, Active, Status
<1>4. ClosureTypeOK'
  <2>1. view' \in [jobs : [Step -> Status], runStatus : RunStatus]
    BY <1>1, <1>3 DEF ClosureInv, ClosureTypeOK, TypeOK, RunStatus, Committed
  <2> QED BY <1>1, <1>3, <2>1 DEF ClosureInv, ClosureTypeOK, TypeOK, vars, Phase
<1>5. ViewInv'
  BY <1>1, <1>2 DEF ViewInv, Active, vars, ClosureInv
<1>6. LeftInv'
  BY <1>1 DEF ClosureInv, LeftInv, vars
<1> QED BY <1>1, <1>4, <1>5, <1>6 DEF ClosureInv, vars

(* A commit makes the rows what the connection sees.                         *)
LEMMA CommitKeeps ==
  ASSUME ClosureInv, phase = "slots", Commit,
         UNCHANGED <<steps, pc, current, stop, continuing, owner, claimed>>
  PROVE  /\ ViewInv' /\ runStatus' # "RUNNING" /\ TypeOK'
         /\ pc = "finished" => runStatus' = runStatus
         /\ LeftInv'
<1>1. ViewInv /\ jobs' = view.jobs /\ runStatus' = view.runStatus /\ view' = view
  BY DEF ClosureInv, Commit
<1>2. TypeOK'
  BY <1>1 DEF ClosureInv, ClosureTypeOK, TypeOK
<1>3. claimed \subseteq Step
  BY DEF ClosureInv, ClosureTypeOK
<1>4. ViewInv'
  BY <1>1, <1>3 DEF ViewInv
<1>5. \A s \in Step : jobs'[s] \in Unfinished => jobs[s] \in Unfinished
  BY <1>1 DEF ClosureInv, ViewInv, Unfinished
<1>6. LeftInv'
  BY <1>5 DEF ClosureInv, LeftInv
<1> QED BY <1>1, <1>2, <1>4, <1>6 DEF ClosureInv, ViewInv

(* Slot by slot, the loop commits what it sees or does nothing.              *)
LEMMA SettleSlotKeeps ==
  ASSUME ClosureInv, NEW t \in Token, SettleSlot(t) PROVE ClosureInv'
<1>1. /\ phase = "slots" /\ phase' = "slots"
      /\ UNCHANGED <<steps, pc, current, stop, continuing, owner, claimed>>
      /\ settled' \in SUBSET Token /\ visited' \in SUBSET Token
  BY DEF SettleSlot, ClosureInv, ClosureTypeOK
<1>2. CASE UNCHANGED <<settled, jobs, runStatus, view>>
  BY <1>1, <1>2 DEF ClosureInv, ClosureTypeOK, TypeOK, ViewInv, LeftInv
<1>3. CASE Commit
  <2>1. view' = view
    BY <1>3 DEF Commit
  <2> QED BY <1>1, <1>3, <2>1, CommitKeeps DEF ClosureInv, ClosureTypeOK
<1> QED BY <1>2, <1>3 DEF SettleSlot

(* The transition of the cycle that is asked for is the one that is there,   *)
(* or the rows stay as they were committed.                                  *)
LEMMA TransitionOwnerKeeps ==
  ASSUME ClosureInv, TransitionOwner PROVE ClosureInv'
<1>1. /\ phase = "slots" /\ phase' = "done"
      /\ UNCHANGED <<steps, pc, current, stop, continuing, owner, settled, visited, claimed>>
  BY DEF TransitionOwner
<1>2. CASE Commit
  <2>1. view' = view
    BY <1>2 DEF Commit
  <2> QED BY <1>1, <1>2, <2>1, CommitKeeps DEF ClosureInv, ClosureTypeOK, Phase
<1>3. CASE owner # ResolveTerminalState /\ RollBack
  <2>1. pc = "finished"
    BY <1>1, <1>3 DEF ClosureInv, ResolveTerminalState, RunFailed
  <2>2. UNCHANGED <<jobs, runStatus>> /\ view' = [jobs |-> jobs, runStatus |-> runStatus]
    BY <1>3 DEF RollBack, Committed
  <2>3. ClosureTypeOK'
    BY <1>1, <2>2 DEF ClosureInv, ClosureTypeOK, TypeOK, Phase
  <2> QED BY <1>1, <2>1, <2>2, <2>3 DEF ClosureInv, LeftInv
<1> QED BY <1>2, <1>3 DEF TransitionOwner

(* Every step keeps the invariant.                                           *)
LEMMA ClosureStepInv == ClosureInv /\ [ClosureNext]_allVars => ClosureInv'
<1> SUFFICES ASSUME ClosureInv, [ClosureNext]_allVars PROVE ClosureInv'
  OBVIOUS
<1>1. CASE UNCHANGED allVars
  BY <1>1 DEF allVars, vars, closureVars, ClosureInv, ClosureTypeOK, TypeOK, FactoryInv,
     StepJobParity, PlaceInv, OrderInv, BarrierInv, WholeInv, DropInv, QuietInv, ViewInv,
     LeftInv, Committed
<1> QED BY <1>1, FactoryKeeps, CleanupKeeps, CancelJobsKeeps, SettleSlotKeeps,
           TransitionOwnerKeeps DEF ClosureNext, Closure

-----------------------------------------------------------------------------
(* Theorems *)

(* The inductive invariant of the factory and its closure holds in every     *)
(* state.                                                                    *)
THEOREM ClosureInvariant == ClosureSpec => []ClosureInv
BY ClosureInitInv, ClosureStepInv, PTL DEF ClosureSpec

(* The closure writes only the states and statuses the code writes.          *)
THEOREM ClosureTypeCorrect == ClosureSpec => []ClosureTypeOK
<1>1. ClosureInv => ClosureTypeOK
  BY DEF ClosureInv
<1> QED BY <1>1, ClosureInvariant, PTL

(* A run whose finally block went through is closed with one active row at   *)
(* most: the step a stop or an interrupt left RUNNING, which no handler of   *)
(* the loop and no part of reconcile_campaign_terminal closes.               *)
THEOREM OnlyTheStoppedStepIsLeft == ClosureSpec => []OnlyStoppedStepLeft
<1>1. ClosureInv => OnlyStoppedStepLeft
  BY DEF ClosureInv, LeftInv, OnlyStoppedStepLeft, ActiveWork, Unfinished
<1> QED BY <1>1, ClosureInvariant, PTL

(* The run is not left RUNNING by the closure, although its last transition  *)
(* may roll back what settled the run: it only does for a run that finished. *)
THEOREM NeverLeftRunning == ClosureSpec => []RunNeverLeftRunning
<1>1. ClosureInv => RunNeverLeftRunning
  BY DEF ClosureInv, RunNeverLeftRunning
<1> QED BY <1>1, ClosureInvariant, PTL

(* The terminal state the cleanup gave the campaign is never replaced.       *)
THEOREM FirstTerminalAlwaysStands == ClosureSpec => FirstTerminalStands
<1>1. ClosureInv /\ [ClosureNext]_allVars => [owner # "RUNNING" => owner' = owner]_allVars
  BY DEF ClosureInv, ClosureNext, Closure, Factory, Cleanup, CancelJobs, SettleSlot,
     TransitionOwner, allVars, closureVars
<1> QED BY <1>1, ClosureInvariant, PTL DEF ClosureSpec, FirstTerminalStands

(* A job that succeeded or failed keeps its terminal while the campaign is   *)
(* closed: only active jobs are cancelled, by whatever commits them.         *)
THEOREM TerminalWorkIsKept == ClosureSpec => ClosureKeepsTerminalWork
<1>1. ASSUME ClosureInv, ClosureNext, phase # "factory",
             NEW s \in Step, jobs[s] \in {"SUCCEEDED", "FAILED"}
      PROVE  jobs'[s] = jobs[s]
  <2>1. CASE Factory
    BY <1>1, <2>1 DEF ClosureInv, Factory, Next, Advance, Loop, ExecuteStep, Barrier, Finally,
       PlanOpenings, PlanningStops, NothingPending, LoopStops, Claim, StepInterrupted,
       StepOverBudget, StepFails, StepSucceeds, BarrierDefers, Evaluate, EvaluateFails,
       ScheduleContinuations, ScheduleFails, ScheduleOverBudget, CancelPending, FinalReport,
       FinallyRaises, Crash
  <2>2. CASE Cleanup \/ CancelJobs
    BY <2>2 DEF Cleanup, CancelJobs, vars
  <2>3. ASSUME phase = "slots", jobs' = view.jobs
        PROVE  jobs'[s] = jobs[s]
    BY <1>1, <2>3 DEF ClosureInv, ViewInv
  <2>4. CASE (\E t \in Token : SettleSlot(t)) \/ TransitionOwner
    <3>1. phase = "slots" /\ (jobs' = jobs \/ jobs' = view.jobs)
      BY <2>4 DEF SettleSlot, TransitionOwner, Commit, RollBack
    <3> QED BY <2>3, <3>1
  <2> QED BY <1>1, <2>1, <2>2, <2>4 DEF ClosureNext, Closure
<1>2. ClosureInv /\ [ClosureNext]_allVars =>
        [(phase # "factory") =>
           \A s \in Step : (jobs[s] \in {"SUCCEEDED", "FAILED"}) => (jobs'[s] = jobs[s])]_allVars
  BY <1>1
<1> QED BY <1>2, ClosureInvariant, PTL DEF ClosureSpec, ClosureKeepsTerminalWork

-----------------------------------------------------------------------------
(* What the report claims                                                    *)

(* What is committed of the claimed cancellations: all of them once a slot   *)
(* was moved, none before.  A slot the loop leaves alone was in its hour.    *)
ClaimInv ==
  /\ phase \in {"factory", "cleaned"} => settled = {} /\ visited = {}
  /\ phase = "slots" =>
       /\ \A t \in visited : t \in continuing \/ t \in settled
       /\ settled # {} => \A s \in claimed : jobs[s] = "CANCELLED"
       /\ settled = {} => \A s \in claimed : jobs[s] \in Unfinished
  /\ ReportIsWhole

(* The factory, the cleanup and the first commitless part of the             *)
(* reconciliation move no slot.                                              *)
LEMMA ClaimBegins ==
  ASSUME ClosureInv, ClaimInv, Factory \/ Cleanup \/ CancelJobs
  PROVE  ClaimInv'
<1>1. CASE Factory
  BY <1>1, FactoryFirst DEF Factory, ClaimInv, ReportIsWhole
<1>2. CASE Cleanup
  BY <1>2 DEF Cleanup, ClaimInv, ReportIsWhole
<1>3. CASE CancelJobs
  <2>1. /\ phase = "cleaned" /\ phase' = "slots" /\ settled' = settled
        /\ visited' = visited /\ jobs' = jobs /\ claimed' = Active
    BY <1>3 DEF CancelJobs, vars
  <2> QED BY <2>1 DEF ClaimInv, ReportIsWhole, Active, Unfinished
<1> QED BY <1>1, <1>2, <1>3

(* A commit makes every claimed cancellation durable.                        *)
LEMMA CommitCancels ==
  ASSUME ClosureInv, phase = "slots", Commit
  PROVE  \A s \in claimed : jobs'[s] = "CANCELLED"
BY DEF ClosureInv, ClosureTypeOK, ViewInv, Commit

(* A slot that is moved commits what is open; one that is not was in its     *)
(* hour, or moved before.                                                    *)
LEMMA ClaimSlot ==
  ASSUME ClosureInv, ClaimInv, NEW t \in Token, SettleSlot(t)
  PROVE  ClaimInv'
<1>1. /\ phase = "slots" /\ phase' = "slots" /\ t \in Slot
      /\ continuing' = continuing /\ claimed' = claimed
      /\ visited' = visited \cup {t}
  BY DEF SettleSlot
<1>2. CASE t \in Selected
  <2>1. settled' = settled \cup {t} /\ Commit
    BY <1>2 DEF SettleSlot
  <2>2. \A s \in claimed : jobs'[s] = "CANCELLED"
    BY <1>1, <2>1, CommitCancels
  <2> QED BY <1>1, <2>1, <2>2 DEF ClaimInv, ReportIsWhole
<1>3. CASE t \notin Selected
  <2>1. UNCHANGED <<settled, jobs>>
    BY <1>3 DEF SettleSlot
  <2>2. t \in continuing \/ t \in settled
    BY <1>1, <1>3 DEF Selected
  <2> QED BY <1>1, <2>1, <2>2 DEF ClaimInv, ReportIsWhole
<1> QED BY <1>2, <1>3

(* The transition of the cycle commits what is open, or rolls it back.       *)
LEMMA ClaimEnds ==
  ASSUME ClosureInv, ClaimInv, TransitionOwner
  PROVE  ClaimInv'
<1>1. /\ phase = "slots" /\ phase' = "done" /\ Slot \subseteq visited
      /\ UNCHANGED <<steps, pc, stop, continuing, claimed>>
  BY DEF TransitionOwner
<1> SUFFICES ReportIsWhole'
  BY <1>1 DEF ClaimInv
<1>2. CASE Commit
  BY <1>1, <1>2, CommitCancels DEF ReportIsWhole
<1>3. CASE owner # ResolveTerminalState /\ RollBack
  <2>1. pc = "finished" /\ jobs' = jobs
    BY <1>1, <1>3 DEF ClosureInv, ResolveTerminalState, RunFailed, RollBack
  <2>2. CASE settled # {}
    BY <1>1, <2>1, <2>2 DEF ClaimInv, ReportIsWhole
  <2>3. CASE settled = {}
    <3>1. Slot \subseteq continuing /\ \A s \in claimed : jobs[s] \in Unfinished
      BY <1>1, <2>3 DEF ClaimInv
    <3>2. Slot' \subseteq continuing'
      BY <1>1, <3>1 DEF Slot
    <3>3. stop \notin {"EXTERNAL", "INTERRUPTED"} => claimed = {}
      BY <1>1, <2>1, <3>1 DEF ClosureInv, ClosureTypeOK, LeftInv
    <3> QED BY <1>1, <2>1, <3>1, <3>2, <3>3 DEF ReportIsWhole, Unfinished
  <2> QED BY <2>2, <2>3
<1> QED BY <1>2, <1>3 DEF TransitionOwner

(* The report of the closure counts as cancelled what is cancelled, or, for  *)
(* a run stopped in the middle of a step with every slot in its hour, what   *)
(* is still active as a whole: a claim is never half true.                   *)
THEOREM ReportsAreWhole == ClosureSpec => []ReportIsWhole
<1>1. ClosureInit => ClaimInv
  BY DEF ClosureInit, ClaimInv, ReportIsWhole
<1>2. ClosureInv /\ ClaimInv /\ [ClosureNext]_allVars => ClaimInv'
  <2>1. ClosureInv /\ ClaimInv /\ UNCHANGED allVars => ClaimInv'
    BY DEF allVars, vars, closureVars, ClaimInv, ReportIsWhole, Slot
  <2> QED BY <2>1, ClaimBegins, ClaimSlot, ClaimEnds DEF ClosureNext, Closure
<1>3. ClaimInv => ReportIsWhole
  BY DEF ClaimInv
<1> QED BY <1>1, <1>2, <1>3, ClosureInvariant, PTL DEF ClosureSpec

-----------------------------------------------------------------------------
(* The closure comes to an end                                               *)

(* The measure of the run and its closure grows with every step: after a     *)
(* bounded number of them there is nothing left to do.                       *)
THEOREM ClosureGoesForward == ClosureSpec => ClosureAdvances
<1> DEFINE Further ==
      /\ \A s \in Step : Level(steps'[s]) >= Level(steps[s])
      /\ \/ \E s \in Step : Level(steps'[s]) > Level(steps[s])
         \/ Stage(pc') > Stage(pc)
      Forward ==
      \/ PhaseRank(phase') > PhaseRank(phase)
      \/ /\ phase' = phase /\ visited \subseteq visited'
         /\ \E t \in Slot : t \notin visited /\ t \in visited'
      \/ phase = "factory" /\ phase' = "factory" /\ Further
<1>1. ClosureInv /\ [ClosureNext]_allVars => [Forward]_allVars
  <2> SUFFICES ASSUME ClosureInv, ClosureNext PROVE Forward
    OBVIOUS
  <2>1. CASE Factory
    <3>1. FactoryInv /\ Next /\ phase = "factory" /\ phase' = "factory"
      BY <2>1, FactoryFirst DEF ClosureInv, Factory
    <3> QED BY <3>1, RunStepFurther
  <2>2. CASE Cleanup \/ CancelJobs \/ TransitionOwner
    <3>1. /\ PhaseRank("factory") = 0 /\ PhaseRank("cleaned") = 1
          /\ PhaseRank("slots") = 3 /\ PhaseRank("done") = 4
      BY DEF PhaseRank
    <3>2. \/ phase = "factory" /\ phase' = "cleaned"
          \/ phase = "cleaned" /\ phase' = "slots"
          \/ phase = "slots" /\ phase' = "done"
      BY <2>2 DEF Cleanup, CancelJobs, TransitionOwner
    <3> QED BY <3>1, <3>2
  <2>3. ASSUME NEW t \in Token, SettleSlot(t) PROVE Forward
    BY <2>3 DEF SettleSlot
  <2> QED BY <2>1, <2>2, <2>3 DEF ClosureNext, Closure
<1> QED BY <1>1, ClosureInvariant, PTL DEF ClosureSpec, ClosureAdvances
=============================================================================
