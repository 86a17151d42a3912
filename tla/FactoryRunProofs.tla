-------------------------- MODULE FactoryRunProofs --------------------------
(***************************************************************************)
(* Theorems about FactoryRun, for every number of tokens and in both       *)
(* modes, through every failure, budget stop, interrupt and crash.         *)
(***************************************************************************)
EXTENDS FactoryRun, TLAPS

Unfinished == {"PENDING", "RUNNING"}
AnchoredKind == {"SNAPSHOT", "WINDOW_CLOSE"}
ContinuationKind == {"CONTINUATION_SNAPSHOT", "CONTINUATION_CLOSE"}
Live == {"planning", "loop", "step", "barrier", "schedule"}

-----------------------------------------------------------------------------
(* The inductive invariant *)

(* Where the factory is tells which row is RUNNING and why it stops.         *)
PlaceInv ==
  /\ pc = "planning" => \A s \in Step : steps[s] = "ABSENT"
  /\ pc = "step" => current \in Step /\ steps[current] = "RUNNING"
  /\ pc \in {"barrier", "schedule"} =>
       /\ current \in Step /\ current[2] = "WINDOW_CLOSE"
       /\ steps[current] = "SUCCEEDED"
  /\ \A s \in Step : steps[s] = "RUNNING" => s = current /\ pc \notin {"planning", "loop"}
  /\ pc \in Live => stop = "COMPLETED" /\ runStatus = "RUNNING"
  /\ pc \in {"stopping", "reporting", "finished"} /\ stop = "COMPLETED" =>
       \A s \in Step : steps[s] \notin Unfinished
  /\ runStatus = "COMPLETED" => pc = "finished" /\ stop = "COMPLETED"

(* While the run goes on, the rows of a token exist and finish in the order  *)
(* of its schedule, and every opening before what is anchored on any.        *)
OrderInv ==
  pc \in Live => \A r, s \in Step :
    /\ r[1] = s[1] /\ r[2] = "OPENING" /\ s[2] # "OPENING"
         /\ steps[r] \in {"ABSENT", "PENDING", "RUNNING"} => steps[s] = "ABSENT"
    /\ r[2] = "OPENING" /\ s[2] # "OPENING" /\ steps[r] \in Unfinished
         => steps[s] \in {"ABSENT", "PENDING"}
    /\ r[1] = s[1] /\ r[2] = "SNAPSHOT" /\ s[2] = "WINDOW_CLOSE"
         /\ steps[r] \in Unfinished => steps[s] = "PENDING"
    /\ pc \in {"barrier", "schedule"} /\ s[2] \in ContinuationKind => steps[s] = "ABSENT"
    /\ pc = "schedule" /\ s[2] \notin ContinuationKind => steps[s] \notin Unfinished
    /\ pc = "schedule" /\ s[1] \in continuing /\ s[2] = "WINDOW_CLOSE" => steps[s] = "SUCCEEDED"

(* BarrierHolds, row by row.                                                 *)
BarrierInv ==
  \A r, s \in Step :
    r[2] \in ContinuationKind /\ s[2] \notin ContinuationKind /\ steps[r] # "ABSENT"
      => steps[s] \notin Unfinished

(* PlansAreWhole, row by row.                                                *)
WholeInv ==
  stop # "BUDGET" => \A r, s \in Step : \A K \in {AnchoredKind, ContinuationKind} :
    r[1] = s[1] /\ r[2] \in K /\ s[2] \in K /\ steps[r] = "ABSENT" => steps[s] = "ABSENT"

(* A row is dropped for a failure of its own token, unless the run stops.    *)
DropInv ==
  stop = "COMPLETED" => \A s \in Step :
    steps[s] = "CANCELLED" => \E r \in Step : r[1] = s[1] /\ steps[r] = "FAILED"

FactoryInv ==
  /\ TypeOK /\ StepJobParity
  /\ PlaceInv /\ OrderInv /\ BarrierInv /\ WholeInv /\ DropInv

-----------------------------------------------------------------------------
(* Rows, tables and types *)

(* A row is its token and its kind; a plan is the rows of some kinds.        *)
LEMMA RowFacts ==
  /\ \A s \in Step : s[1] \in Token /\ s[2] \in StepKind
  /\ \A r, s \in Step : r[1] = s[1] /\ r[2] = s[2] => r = s
  /\ \A t \in Token, s \in Step :
       /\ (s = Opening(t)) <=> (s[1] = t /\ s[2] = "OPENING")
       /\ (s = Close(t)) <=> (s[1] = t /\ s[2] = "WINDOW_CLOSE")
       /\ (s \in Anchored(t)) <=> (s[1] = t /\ s[2] \in AnchoredKind)
       /\ (s \in Continuation(t)) <=> (s[1] = t /\ s[2] \in ContinuationKind)
       /\ (s \in OfToken(t)) <=> (s[1] = t)
  /\ \A t \in Token : Opening(t) \in Step /\ Close(t) \in Step
BY DEF Step, StepKind, Opening, Close, Anchored, Continuation, OfToken,
       AnchoredKind, ContinuationKind

(* Set gives one status to some rows of a table and keeps the others.        *)
LEMMA SetRows ==
  ASSUME NEW table, NEW S, NEW v
  PROVE  \A s \in Step : Set(table, S, v)[s] = IF s \in S THEN v ELSE table[s]
BY DEF Set

(* A write of a status keeps the type of the table.                          *)
LEMMA SetType ==
  ASSUME NEW table \in [Step -> Status], NEW S, NEW v \in Status
  PROVE  Set(table, S, v) \in [Step -> Status]
BY DEF Set

(* Every action keeps the types of the columns, and writes a row of          *)
(* run_steps and the row of its job to one status.                           *)
LEMMA InitTypes == Init => TypeOK /\ StepJobParity
BY DEF Init, TypeOK, StepJobParity, Status, Place, StopReason, RunStatus

(* The failure of a token writes its rows and their jobs alike.              *)
LEMMA TokenFailsTypes ==
  ASSUME TypeOK, StepJobParity, current \in Step, TokenFails, continuing' \in SUBSET Token
  PROVE  TypeOK' /\ StepJobParity'
<1> DEFINE dropped == InStatus(OfToken(current[1]), "PENDING")
<1>1. steps' = jobs' /\ steps' = Set(Set(steps, {current}, "FAILED"), dropped, "CANCELLED")
  BY DEF TokenFails, StepJobParity, fail_job, cancel_job
<1> HIDE DEF dropped
<1>2. steps' \in [Step -> Status]
  BY <1>1, SetType DEF TypeOK, Status
<1> QED BY <1>1, <1>2 DEF TypeOK, StepJobParity, TokenFails, Place

(* A budget stop writes the row in hand and its job alike, and so the rows   *)
(* planned so far.                                                           *)
LEMMA GlobalStopTypes ==
  ASSUME TypeOK, StepJobParity, current \in Step, NEW added, GlobalStop(added)
  PROVE  TypeOK' /\ StepJobParity'
<1>1. steps' = jobs' /\ steps' = Set(Set(steps, {current}, "FAILED"), added, "PENDING")
  BY DEF GlobalStop, StepJobParity, fail_job, insert
<1>2. steps' \in [Step -> Status]
  BY <1>1, SetType DEF TypeOK, Status
<1> QED BY <1>1, <1>2 DEF TypeOK, StepJobParity, GlobalStop, Place, StopReason

(* Every step keeps the types and the parity of the two tables.              *)
LEMMA StepTypes ==
  ASSUME TypeOK, StepJobParity, PlaceInv, [Next]_vars
  PROVE  TypeOK' /\ StepJobParity'
<1>1. CASE PlanOpenings
  <2>1. PICK m \in 0..N : LET added == {Opening(t) : t \in 1..m}
                          IN  steps' = insert(steps, added) /\ jobs' = insert(jobs, added)
    BY <1>1 DEF PlanOpenings
  <2>2. steps' = jobs' /\ steps' \in [Step -> Status]
    BY <2>1, SetType DEF insert, TypeOK, StepJobParity, Status
  <2> QED BY <1>1, <2>2 DEF PlanOpenings, TypeOK, StepJobParity, Place, StopReason
<1>2. CASE PlanningStops \/ NothingPending \/ LoopStops \/ StepInterrupted
           \/ BarrierDefers \/ Evaluate \/ FinallyRaises \/ Crash
  BY <1>2 DEF PlanningStops, NothingPending, LoopStops, StepInterrupted, BarrierDefers,
     Evaluate, FinallyRaises, Crash, TypeOK, StepJobParity, Place, StopReason, Closed
<1>3. ASSUME NEW s \in Step, Claim(s) PROVE TypeOK' /\ StepJobParity'
  <2>1. steps' = jobs' /\ steps' = Set(steps, {s}, "RUNNING")
    BY <1>3 DEF Claim, StepJobParity
  <2>2. steps' \in [Step -> Status]
    BY <2>1, SetType DEF TypeOK, Status
  <2> QED BY <1>3, <2>1, <2>2 DEF Claim, TypeOK, StepJobParity, Place
<1>4. CASE StepOverBudget
  BY <1>4, GlobalStopTypes DEF StepOverBudget, PlaceInv
<1>5. CASE StepFails
  BY <1>5, TokenFailsTypes DEF StepFails, PlaceInv, TypeOK
<1>6. CASE StepSucceeds
  <2>1. PICK added : /\ steps' = insert(Set(steps, {current}, "SUCCEEDED"), added)
                     /\ jobs' = insert(complete_job(jobs, current), added)
    BY <1>6 DEF StepSucceeds
  <2>2. steps' = jobs'
    BY <2>1 DEF insert, complete_job, StepJobParity
  <2>3. Set(steps, {current}, "SUCCEEDED") \in [Step -> Status]
    BY SetType DEF TypeOK, Status
  <2>4. steps' \in [Step -> Status]
    BY <2>1, <2>3, SetType DEF insert, Status
  <2> QED BY <1>6, <2>2, <2>4 DEF StepSucceeds, TypeOK, StepJobParity, Place
<1>7. CASE EvaluateFails
  BY <1>7, TokenFailsTypes DEF EvaluateFails, PlaceInv, Closed
<1>8. CASE ScheduleContinuations
  <2>1. PICK added : steps' = insert(steps, added) /\ jobs' = insert(jobs, added)
    BY <1>8 DEF ScheduleContinuations
  <2>2. steps' = jobs' /\ steps' \in [Step -> Status]
    BY <2>1, SetType DEF insert, TypeOK, StepJobParity, Status
  <2> QED BY <1>8, <2>2 DEF ScheduleContinuations, TypeOK, StepJobParity, Place
<1>9. CASE ScheduleFails
  <2>1. PICK added, dropped :
          /\ steps' = Set(Set(insert(steps, added), {current}, "FAILED"), dropped, "CANCELLED")
          /\ jobs' = cancel_job(fail_job(insert(jobs, added), current), dropped)
    BY <1>9 DEF ScheduleFails
  <2>2. steps' = jobs'
    BY <2>1 DEF insert, fail_job, cancel_job, StepJobParity
  <2>3. insert(steps, added) \in [Step -> Status]
    BY SetType DEF insert, TypeOK, Status
  <2>4. Set(insert(steps, added), {current}, "FAILED") \in [Step -> Status]
    BY <2>3, SetType DEF Status
  <2>5. steps' \in [Step -> Status]
    BY <2>1, <2>4, SetType DEF Status
  <2> QED BY <1>9, <2>2, <2>5 DEF ScheduleFails, TypeOK, StepJobParity, Place
<1>10. CASE ScheduleOverBudget
  BY <1>10, GlobalStopTypes DEF ScheduleOverBudget, PlaceInv
<1>11. CASE CancelPending
  <2>1. steps' = jobs' /\ steps' \in [Step -> Status]
    BY <1>11, SetType DEF CancelPending, cancel_job, TypeOK, StepJobParity, Status
  <2> QED BY <1>11, <2>1 DEF CancelPending, TypeOK, StepJobParity, Place
<1>12. CASE FinalReport
  BY <1>12 DEF FinalReport, RunVerdict, TypeOK, StepJobParity, Place, RunStatus
<1>13. CASE UNCHANGED vars
  BY <1>13 DEF vars, TypeOK, StepJobParity
<1> QED
  BY <1>1, <1>2, <1>3, <1>4, <1>5, <1>6, <1>7, <1>8, <1>9, <1>10, <1>11, <1>12, <1>13
  DEF Next, Advance, Loop, ExecuteStep, Barrier, Finally

-----------------------------------------------------------------------------
(* The other parts of the invariant, action by action *)

RowsInv == PlaceInv /\ OrderInv /\ BarrierInv /\ WholeInv /\ DropInv

(* An empty table satisfies the invariant.                                   *)
LEMMA InitRows == Init => RowsInv
BY DEF Init, RowsInv, PlaceInv, OrderInv, BarrierInv, WholeInv, DropInv, Unfinished, Live

(* An action that writes no row only changes where the factory is, and why   *)
(* it stops.                                                                 *)
LEMMA QuietRows ==
  ASSUME FactoryInv, TypeOK',
         \/ PlanningStops \/ NothingPending \/ LoopStops \/ StepInterrupted
         \/ BarrierDefers \/ FinalReport \/ FinallyRaises \/ Crash \/ UNCHANGED vars
  PROVE  RowsInv'
<1> USE DEF FactoryInv
<1>1. steps' = steps /\ continuing' = continuing
  BY DEF PlanningStops, NothingPending, LoopStops, StepInterrupted, BarrierDefers,
     FinalReport, FinallyRaises, Crash, vars
<1>2. /\ pc' \in Live => pc' = pc \/ pc' = "loop"
      /\ pc' \in Live /\ pc' # pc => pc = "barrier"
  BY DEF PlanningStops, NothingPending, LoopStops, StepInterrupted, BarrierDefers,
     FinalReport, FinallyRaises, Crash, vars, Live
<1>3. stop' # "BUDGET" => stop # "BUDGET"
  BY DEF PlanningStops, NothingPending, LoopStops, StepInterrupted, BarrierDefers,
     FinalReport, FinallyRaises, Crash, vars, PlaceInv, Live
<1>4. stop' = "COMPLETED" => stop = "COMPLETED"
  BY DEF PlanningStops, NothingPending, LoopStops, StepInterrupted, BarrierDefers,
     FinalReport, FinallyRaises, Crash, vars
<1>5. PlaceInv'
  <2>1. CASE NothingPending
    BY <1>1, <2>1 DEF NothingPending, InStatus, PlaceInv, Unfinished, Live
  <2>2. CASE PlanningStops \/ LoopStops \/ StepInterrupted
    BY <1>1, <2>2 DEF PlanningStops, LoopStops, StepInterrupted, PlaceInv, Live
  <2>3. CASE BarrierDefers
    BY <1>1, <2>3 DEF BarrierDefers, PlaceInv, Live
  <2>4. CASE FinalReport
    BY <1>1, <2>4 DEF FinalReport, RunVerdict, PlaceInv, Live
  <2>5. CASE FinallyRaises \/ Crash \/ UNCHANGED vars
    BY <1>1, <2>5 DEF FinallyRaises, Crash, vars, PlaceInv, Live
  <2> QED BY <2>1, <2>2, <2>3, <2>4, <2>5
<1>6. OrderInv'
  BY <1>1, <1>2 DEF OrderInv, Live
<1>7. BarrierInv' /\ WholeInv' /\ DropInv'
  BY <1>1, <1>3, <1>4 DEF BarrierInv, WholeInv, DropInv
<1> QED BY <1>5, <1>6, <1>7 DEF RowsInv

(* The openings are planned into an empty table.                             *)
LEMMA PlanOpeningsRows ==
  ASSUME FactoryInv, PlanOpenings PROVE RowsInv'
<1> USE DEF FactoryInv
<1>1. PICK m \in 0..N :
        /\ steps' = insert(steps, {Opening(t) : t \in 1..m})
        /\ stop' = IF m = 0 THEN "EMPTY" ELSE stop
        /\ pc' = IF m = 0 THEN "stopping" ELSE "loop"
  BY DEF PlanOpenings
<1> DEFINE added == {Opening(t) : t \in 1..m}
<1>2. \A s \in added : s[2] = "OPENING"
  BY DEF Opening
<1>0. steps' = Set(steps, added, "PENDING") /\ pc = "planning"
  BY <1>1 DEF insert, PlanOpenings
<1> HIDE DEF added
<1>3. \A s \in Step : steps'[s] = "ABSENT" \/ (steps'[s] = "PENDING" /\ s[2] = "OPENING")
  BY <1>0, <1>2, SetRows DEF PlaceInv
<1>4. /\ stop = "COMPLETED" /\ stop' \in {"EMPTY", "COMPLETED"}
      /\ pc' \in {"stopping", "loop"} /\ (pc' = "loop" <=> stop' = "COMPLETED")
      /\ runStatus' = "RUNNING"
  BY <1>1 DEF PlanOpenings, PlaceInv, Live
<1>5. PlaceInv'
  BY <1>3, <1>4 DEF PlaceInv, Live
<1>6. OrderInv'
  BY <1>3, <1>4 DEF OrderInv, Unfinished
<1>7. BarrierInv' /\ WholeInv' /\ DropInv'
  BY <1>3 DEF BarrierInv, WholeInv, DropInv, AnchoredKind, ContinuationKind
<1> QED BY <1>5, <1>6, <1>7 DEF RowsInv

(* A claim takes the next row in the order of the schedule.                  *)
LEMMA ClaimRows ==
  ASSUME FactoryInv, NEW c \in Step, Claim(c) PROVE RowsInv'
<1> USE DEF FactoryInv
<1>1. \A s \in Step : steps'[s] = IF s = c THEN "RUNNING" ELSE steps[s]
  BY SetRows DEF Claim
<1>2. /\ steps[c] = "PENDING" /\ current' = c /\ pc = "loop" /\ pc' = "step"
      /\ stop' = stop /\ runStatus' = runStatus
      /\ \A s \in Step : steps[s] # "RUNNING"
  BY DEF Claim, NextPending, PlaceInv
<1>3. \A s \in Step : steps[s] = "PENDING" => ~Before(s, c)
  BY DEF Claim, NextPending, InStatus
<1>4. \A s \in Step :
        /\ (s[2] = "OPENING" /\ c[2] # "OPENING") => steps[s] # "PENDING"
        /\ (s[2] = "SNAPSHOT" /\ c[2] = "WINDOW_CLOSE" /\ s[1] = c[1]) => steps[s] # "PENDING"
  BY <1>3 DEF Before, Rank
<1>5. PlaceInv'
  BY <1>1, <1>2 DEF PlaceInv, Live
<1>6. OrderInv'
  <2> SUFFICES ASSUME NEW r \in Step, NEW s \in Step
               PROVE
    /\ r[1] = s[1] /\ r[2] = "OPENING" /\ s[2] # "OPENING"
         /\ steps'[r] \in {"ABSENT", "PENDING", "RUNNING"} => steps'[s] = "ABSENT"
    /\ r[2] = "OPENING" /\ s[2] # "OPENING" /\ steps'[r] \in Unfinished
         => steps'[s] \in {"ABSENT", "PENDING"}
    /\ r[1] = s[1] /\ r[2] = "SNAPSHOT" /\ s[2] = "WINDOW_CLOSE"
         /\ steps'[r] \in Unfinished => steps'[s] = "PENDING"
    BY <1>2 DEF OrderInv
  <2>1. ASSUME r[1] = s[1], r[2] = "OPENING", s[2] # "OPENING",
               steps'[r] \in {"ABSENT", "PENDING", "RUNNING"}
        PROVE  steps'[s] = "ABSENT"
    <3>1. steps[r] \in {"ABSENT", "PENDING", "RUNNING"} /\ steps[s] = "ABSENT"
      BY <1>1, <1>2, <2>1 DEF OrderInv, Live
    <3> QED BY <1>1, <1>2, <3>1
  <2>2. ASSUME r[2] = "OPENING", s[2] # "OPENING", steps'[r] \in Unfinished
        PROVE  steps'[s] \in {"ABSENT", "PENDING"}
    <3>1. steps[r] = "PENDING"
      BY <1>1, <1>2, <2>2 DEF Unfinished
    <3>2. steps[s] \in {"ABSENT", "PENDING"}
      BY <1>2, <2>2, <3>1 DEF OrderInv, Live, Unfinished
    <3>3. ASSUME s = c PROVE FALSE
      <4>1. c[2] = s[2] /\ c[1] = s[1]
        BY <3>3
      <4> QED BY <1>4, <2>2, <3>1, <4>1
    <3> QED BY <1>1, <3>2, <3>3
  <2>3. ASSUME r[1] = s[1], r[2] = "SNAPSHOT", s[2] = "WINDOW_CLOSE", steps'[r] \in Unfinished
        PROVE  steps'[s] = "PENDING"
    <3>1. steps[r] = "PENDING"
      BY <1>1, <1>2, <2>3 DEF Unfinished
    <3>2. steps[s] = "PENDING"
      BY <1>2, <2>3, <3>1 DEF OrderInv, Live, Unfinished
    <3>3. ASSUME s = c PROVE FALSE
      <4>1. c[2] = s[2] /\ c[1] = s[1]
        BY <3>3
      <4> QED BY <1>4, <2>3, <3>1, <4>1
    <3> QED BY <1>1, <3>2, <3>3
  <2> QED BY <2>1, <2>2, <2>3
<1>7. BarrierInv'
  BY <1>1, <1>2 DEF BarrierInv, Unfinished
<1>8. WholeInv' /\ DropInv'
  <2>1. WholeInv'
    BY <1>1, <1>2 DEF WholeInv
  <2>2. DropInv'
    BY <1>1, <1>2 DEF DropInv
  <2> QED BY <2>1, <2>2
<1> QED BY <1>5, <1>6, <1>7, <1>8 DEF RowsInv

(* A budget stop fails the row in hand, and keeps what was planned so far.   *)
LEMMA GlobalStopRows ==
  ASSUME FactoryInv, pc \in Live, current \in Step, NEW added, GlobalStop(added),
         steps[current] # "ABSENT",
         \A r, s \in Step :
            r \in added /\ r[2] \in ContinuationKind /\ s[2] \notin ContinuationKind
              => s \notin added /\ (steps[s] \notin Unfinished \/ s = current),
         \A r, s \in Step :
            s \in added /\ s[2] \notin ContinuationKind /\ r[2] \in ContinuationKind
              => steps[r] = "ABSENT"
  PROVE  RowsInv'
<1> USE DEF FactoryInv
<1>1. \A s \in Step : steps'[s] = IF s \in added THEN "PENDING"
                                  ELSE IF s = current THEN "FAILED" ELSE steps[s]
  BY SetRows DEF GlobalStop, insert
<1>2. pc' = "stopping" /\ stop' = "BUDGET" /\ current' = current /\ runStatus' = "RUNNING"
  BY DEF GlobalStop, PlaceInv
<1>3. PlaceInv'
  BY <1>1, <1>2 DEF PlaceInv, Live, Unfinished
<1>4. OrderInv' /\ WholeInv' /\ DropInv'
  BY <1>2 DEF OrderInv, WholeInv, DropInv, Live
<1>5. BarrierInv'
  <2> SUFFICES ASSUME NEW r \in Step, NEW s \in Step, r[2] \in ContinuationKind,
                      s[2] \notin ContinuationKind, steps'[r] # "ABSENT"
               PROVE  steps'[s] \notin Unfinished
    BY DEF BarrierInv
  <2>1. CASE r \in added
    BY <1>1, <2>1 DEF Unfinished
  <2>2. CASE r \notin added
    <3>1. steps[r] # "ABSENT"
      BY <1>1, <2>2
    <3>2. s \notin added /\ steps[s] \notin Unfinished
      BY <3>1 DEF BarrierInv
    <3> QED BY <1>1, <3>2 DEF Unfinished
  <2> QED BY <2>1, <2>2
<1> QED BY <1>3, <1>4, <1>5 DEF RowsInv

(* A ceiling reached in a step: nothing, or part of an anchored plan, was    *)
(* planned by it.                                                            *)
LEMMA StepOverBudgetRows ==
  ASSUME FactoryInv, StepOverBudget PROVE RowsInv'
<1> USE DEF FactoryInv
<1>1. pc \in Live /\ current \in Step /\ steps[current] = "RUNNING"
  BY DEF StepOverBudget, PlaceInv, Live
<1>2. CASE GlobalStop({})
  BY <1>1, <1>2, GlobalStopRows
<1>3. CASE current[2] = "OPENING" /\ \E p \in PartOfAnchored(current[1]) : GlobalStop(p)
  <2>1. PICK p \in PartOfAnchored(current[1]) : GlobalStop(p)
    BY <1>3
  <2>2. \A s \in Step : s \in p => s[2] = "SNAPSHOT"
    BY DEF PartOfAnchored
  <2>3. \A r \in Step : r[2] \in ContinuationKind => steps[r] = "ABSENT"
    BY <1>1, <1>3 DEF BarrierInv, ContinuationKind, Unfinished
  <2> QED BY <1>1, <1>3, <2>1, <2>2, <2>3, GlobalStopRows DEF ContinuationKind
<1> QED BY <1>2, <1>3 DEF StepOverBudget

(* A failing token takes its own pending rows down, and no other row.        *)
LEMMA TokenFailsRows ==
  ASSUME FactoryInv, pc \in {"step", "barrier"}, TokenFails PROVE RowsInv'
<1> USE DEF FactoryInv
<1>1. \A s \in Step : steps'[s] = IF s[1] = current[1] /\ steps[s] = "PENDING" THEN "CANCELLED"
                                  ELSE IF s = current THEN "FAILED" ELSE steps[s]
  <2> DEFINE dropped == InStatus(OfToken(current[1]), "PENDING")
  <2>1. \A s \in Step : (s \in dropped) <=> (s[1] = current[1] /\ steps[s] = "PENDING")
    BY RowFacts DEF InStatus, PlaceInv
  <2>2. steps' = Set(Set(steps, {current}, "FAILED"), dropped, "CANCELLED")
    BY DEF TokenFails
  <2> HIDE DEF dropped
  <2> QED BY <2>1, <2>2, SetRows
<1>2. /\ current \in Step /\ steps[current] \in {"RUNNING", "SUCCEEDED"}
      /\ steps[current] = "SUCCEEDED" => current[2] = "WINDOW_CLOSE"
      /\ pc' = "loop" /\ stop' = stop /\ runStatus' = runStatus
      /\ \A s \in Step : steps[s] = "RUNNING" => s = current
  BY DEF TokenFails, PlaceInv
<1>3. PlaceInv'
  BY <1>1, <1>2 DEF PlaceInv, Live
<1>4. OrderInv'
  <2> SUFFICES ASSUME NEW r \in Step, NEW s \in Step
               PROVE
    /\ r[1] = s[1] /\ r[2] = "OPENING" /\ s[2] # "OPENING"
         /\ steps'[r] \in {"ABSENT", "PENDING", "RUNNING"} => steps'[s] = "ABSENT"
    /\ r[2] = "OPENING" /\ s[2] # "OPENING" /\ steps'[r] \in Unfinished
         => steps'[s] \in {"ABSENT", "PENDING"}
    /\ r[1] = s[1] /\ r[2] = "SNAPSHOT" /\ s[2] = "WINDOW_CLOSE"
         /\ steps'[r] \in Unfinished => steps'[s] = "PENDING"
    BY <1>2 DEF OrderInv
  <2>1. ASSUME r[1] = s[1], r[2] = "OPENING", s[2] # "OPENING",
               steps'[r] \in {"ABSENT", "PENDING", "RUNNING"}
        PROVE  steps'[s] = "ABSENT"
    <3>1. steps[r] \in {"ABSENT", "PENDING", "RUNNING"}
      BY <1>1, <2>1
    <3>2. steps[s] = "ABSENT"
      BY <2>1, <3>1 DEF OrderInv, Live
    <3> QED BY <1>1, <1>2, <3>2
  <2>2. ASSUME r[2] = "OPENING", s[2] # "OPENING", steps'[r] \in Unfinished
        PROVE  steps'[s] \in {"ABSENT", "PENDING"}
    <3>1. steps[r] \in Unfinished
      BY <1>1, <2>2 DEF Unfinished
    <3>2. steps[s] \in {"ABSENT", "PENDING"}
      BY <2>2, <3>1 DEF OrderInv, Live
    <3>3. current[2] = "OPENING"
      BY <1>2, <2>2, <3>1 DEF OrderInv, Live
    <3>4. s[1] = current[1] => steps[s] = "ABSENT"
      BY <1>2, <2>2, <3>3 DEF OrderInv, Live
    <3> QED BY <1>1, <1>2, <3>2, <3>4
  <2>3. ASSUME r[1] = s[1], r[2] = "SNAPSHOT", s[2] = "WINDOW_CLOSE", steps'[r] \in Unfinished
        PROVE  steps'[s] = "PENDING"
    <3>1. steps[r] = "PENDING" /\ r[1] # current[1]
      BY <1>1, <1>2, <2>3 DEF Unfinished
    <3>2. steps[s] = "PENDING"
      BY <2>3, <3>1 DEF OrderInv, Live, Unfinished
    <3> QED BY <1>1, <1>2, <2>3, <3>1, <3>2
  <2> QED BY <2>1, <2>2, <2>3
<1>5. BarrierInv'
  BY <1>1, <1>2 DEF BarrierInv, Unfinished
<1>6. WholeInv'
  BY <1>1, <1>2 DEF WholeInv
<1>7. DropInv'
  <2> SUFFICES ASSUME stop = "COMPLETED", NEW s \in Step, steps'[s] = "CANCELLED"
               PROVE  \E r \in Step : r[1] = s[1] /\ steps'[r] = "FAILED"
    BY <1>2 DEF DropInv
  <2>1. CASE s[1] = current[1]
    BY <1>1, <1>2, <2>1
  <2>2. CASE s[1] # current[1]
    <3>1. PICK r \in Step : r[1] = s[1] /\ steps[r] = "FAILED"
      BY <1>1, <1>2, <2>2 DEF DropInv
    <3> QED BY <1>1, <3>1
  <2> QED BY <2>1, <2>2
<1> QED BY <1>3, <1>4, <1>5, <1>6, <1>7 DEF RowsInv

(* A captured opening plans the rest of its token's first window.            *)
LEMMA StepSucceedsRows ==
  ASSUME FactoryInv, StepSucceeds PROVE RowsInv'
<1> USE DEF FactoryInv
<1> DEFINE New(s) == current[2] = "OPENING" /\ s[1] = current[1] /\ s[2] \in AnchoredKind
<1>1. /\ current \in Step /\ steps[current] = "RUNNING" /\ pc = "step"
      /\ pc' \in {"loop", "barrier"} /\ stop' = stop /\ runStatus' = runStatus
      /\ pc' = "barrier" => current[2] = "WINDOW_CLOSE" /\ current' = current
      /\ \A s \in Step : steps[s] = "RUNNING" => s = current
  BY DEF StepSucceeds, PlaceInv
<1>2. \A s \in Step : steps'[s] = IF New(s) THEN "PENDING"
                                  ELSE IF s = current THEN "SUCCEEDED" ELSE steps[s]
  <2> DEFINE added == IF current[2] = "OPENING" THEN Anchored(current[1]) ELSE {}
  <2>1. \A s \in Step : (s \in added) <=> New(s)
    BY <1>1, RowFacts
  <2>2. steps' = Set(Set(steps, {current}, "SUCCEEDED"), added, "PENDING")
    BY DEF StepSucceeds, insert
  <2> HIDE DEF added, New
  <2> QED BY <2>1, <2>2, SetRows
<1>3. \A s \in Step : New(s) => steps[s] = "ABSENT" /\ s # current /\ s[2] # "OPENING"
  BY <1>1 DEF OrderInv, Live, AnchoredKind
<1>4. PlaceInv'
  <2>1. steps'[current] = "SUCCEEDED" /\ \A s \in Step : steps'[s] # "RUNNING"
    BY <1>1, <1>2, <1>3
  <2>2. runStatus' = "RUNNING" /\ stop' = "COMPLETED"
    BY <1>1 DEF PlaceInv, Live
  <2> QED BY <1>1, <2>1, <2>2 DEF PlaceInv, Live
<1>5. ASSUME NEW r \in Step, NEW s \in Step, r[1] = s[1], r[2] = "OPENING", s[2] # "OPENING",
             steps'[r] \in {"ABSENT", "PENDING", "RUNNING"}
      PROVE  steps'[s] = "ABSENT"
  <2>1. steps[r] \in {"ABSENT", "PENDING", "RUNNING"} /\ r # current
    BY <1>2, <1>3, <1>5
  <2>2. steps[s] = "ABSENT"
    BY <1>1, <1>5, <2>1 DEF OrderInv, Live
  <2>3. ~New(s)
    BY <1>1, <1>5, <2>1, RowFacts
  <2> QED BY <1>1, <1>2, <2>2, <2>3
<1>6. ASSUME NEW r \in Step, NEW s \in Step, r[2] = "OPENING", s[2] # "OPENING",
             steps'[r] \in Unfinished
      PROVE  steps'[s] \in {"ABSENT", "PENDING"}
  <2>1. steps[r] \in Unfinished /\ r # current
    BY <1>2, <1>3, <1>6 DEF Unfinished
  <2>2. steps[s] \in {"ABSENT", "PENDING"}
    BY <1>1, <1>6, <2>1 DEF OrderInv, Live
  <2> QED BY <1>1, <1>2, <2>2
<1>7. ASSUME NEW r \in Step, NEW s \in Step, r[1] = s[1], r[2] = "SNAPSHOT",
             s[2] = "WINDOW_CLOSE", steps'[r] \in Unfinished
      PROVE  steps'[s] = "PENDING"
  <2>1. CASE New(r)
    BY <1>2, <1>7, <2>1 DEF AnchoredKind
  <2>2. CASE ~New(r)
    <3>1. steps[r] \in Unfinished /\ r # current
      BY <1>2, <1>7, <2>2 DEF Unfinished
    <3>2. steps[s] = "PENDING"
      BY <1>1, <1>7, <3>1 DEF OrderInv, Live
    <3> QED BY <1>1, <1>2, <3>2
  <2> QED BY <2>1, <2>2
<1>8. ASSUME NEW s \in Step, pc' = "barrier", s[2] \in ContinuationKind
      PROVE  steps'[s] = "ABSENT"
  <2>1. steps[s] = "ABSENT"
    BY <1>1, <1>8 DEF BarrierInv, ContinuationKind, Unfinished
  <2> QED BY <1>1, <1>2, <1>8, <2>1
<1>9. OrderInv'
  BY <1>1, <1>5, <1>6, <1>7, <1>8 DEF OrderInv
<1>10. BarrierInv'
  <2> SUFFICES ASSUME NEW r \in Step, NEW s \in Step, r[2] \in ContinuationKind,
                      s[2] \notin ContinuationKind, steps'[r] # "ABSENT"
               PROVE  steps'[s] \notin Unfinished
    BY DEF BarrierInv
  <2>1. steps[r] # "ABSENT"
    BY <1>1, <1>2 DEF AnchoredKind, ContinuationKind
  <2>2. steps[s] \notin Unfinished
    BY <2>1 DEF BarrierInv
  <2>3. ~New(s)
    BY <1>1, <2>1 DEF BarrierInv, ContinuationKind, Unfinished
  <2> QED BY <1>2, <2>2, <2>3 DEF Unfinished
<1>11. WholeInv'
  <2> SUFFICES ASSUME stop # "BUDGET", NEW r \in Step, NEW s \in Step,
                      NEW K \in {AnchoredKind, ContinuationKind}, r[1] = s[1],
                      r[2] \in K, s[2] \in K, steps'[r] = "ABSENT"
               PROVE  steps'[s] = "ABSENT"
    BY <1>1 DEF WholeInv
  <2>1. steps[r] = "ABSENT" /\ ~New(r)
    BY <1>2
  <2>2. steps[s] = "ABSENT"
    BY <2>1 DEF WholeInv
  <2>3. ~New(s)
    BY <2>1 DEF AnchoredKind, ContinuationKind
  <2> QED BY <1>1, <1>2, <2>2, <2>3
<1>12. DropInv'
  <2> SUFFICES ASSUME stop = "COMPLETED", NEW s \in Step, steps'[s] = "CANCELLED"
               PROVE  \E r \in Step : r[1] = s[1] /\ steps'[r] = "FAILED"
    BY <1>1 DEF DropInv
  <2>1. PICK r \in Step : r[1] = s[1] /\ steps[r] = "FAILED"
    BY <1>2 DEF DropInv
  <2> QED BY <1>1, <1>2, <1>3, <2>1
<1> QED BY <1>4, <1>9, <1>10, <1>11, <1>12 DEF RowsInv

(* When every planned close has succeeded, no first window has a row left:   *)
(* the openings came first, and a close comes after its snapshots.           *)
LEMMA BarrierReached ==
  ASSUME FactoryInv, pc = "barrier", Closed = Activated
  PROVE  \A s \in Step : s[2] \notin ContinuationKind => steps[s] \notin Unfinished
<1> USE DEF FactoryInv
<1> SUFFICES ASSUME NEW s \in Step, s[2] \notin ContinuationKind, steps[s] \in Unfinished
             PROVE  FALSE
  OBVIOUS
<1>1. /\ current \in Step /\ current[2] = "WINDOW_CLOSE" /\ steps[current] = "SUCCEEDED"
  BY DEF PlaceInv
<1>2. s[1] \in Token /\ Close(s[1]) \in Step
      /\ Close(s[1])[1] = s[1] /\ Close(s[1])[2] = "WINDOW_CLOSE"
  BY RowFacts DEF Close
<1>3. steps[Close(s[1])] \in {"ABSENT", "SUCCEEDED"}
  BY <1>2 DEF Closed, Activated
<1>4. CASE s[2] = "OPENING"
  BY <1>1, <1>4 DEF OrderInv, Live, Unfinished
<1>5. CASE s[2] = "SNAPSHOT"
  BY <1>2, <1>3, <1>5 DEF OrderInv, Live
<1>6. CASE s[2] = "WINDOW_CLOSE"
  BY <1>2, <1>3, <1>6, RowFacts DEF Unfinished
<1> QED BY <1>4, <1>5, <1>6, RowFacts DEF StepKind, ContinuationKind

(* The evaluation only moves slots, of tokens that closed.                   *)
LEMMA EvaluateRows ==
  ASSUME FactoryInv, Evaluate PROVE RowsInv'
<1> USE DEF FactoryInv
<1>1. /\ steps' = steps /\ stop' = stop /\ runStatus' = runStatus /\ current' = current
      /\ pc = "barrier" /\ pc' = "schedule"
      /\ \A t \in continuing' : t \in Token /\ steps[Close(t)] = "SUCCEEDED"
  BY DEF Evaluate, Closed
<1>2. \A s \in Step : s[2] \notin ContinuationKind => steps[s] \notin Unfinished
  BY BarrierReached DEF Evaluate
<1>3. \A s \in Step : s[1] \in continuing' /\ s[2] = "WINDOW_CLOSE" => steps[s] = "SUCCEEDED"
  BY <1>1, RowFacts
<1>4. PlaceInv'
  BY <1>1 DEF PlaceInv, Live
<1>5. OrderInv'
  BY <1>1, <1>2, <1>3 DEF OrderInv, Live
<1>6. BarrierInv' /\ WholeInv' /\ DropInv'
  BY <1>1 DEF BarrierInv, WholeInv, DropInv
<1> QED BY <1>4, <1>5, <1>6 DEF RowsInv

(* While continuations are planned, nothing of a first window is unfinished, *)
(* no continuation exists, and the tokens that continue have closed.         *)
LEMMA Scheduling ==
  ASSUME FactoryInv, pc = "schedule"
  PROVE  /\ current \in Step /\ current[2] = "WINDOW_CLOSE" /\ steps[current] = "SUCCEEDED"
         /\ stop = "COMPLETED" /\ runStatus = "RUNNING" /\ continuing \in SUBSET Token
         /\ \A s \in Step : steps[s] # "RUNNING"
         /\ \A s \in Step : IF s[2] \in ContinuationKind THEN steps[s] = "ABSENT"
                             ELSE steps[s] \notin Unfinished
         /\ \A s \in Step : s[1] \in continuing /\ s[2] = "OPENING" => steps[s] # "ABSENT"
<1> USE DEF FactoryInv
<1>1. /\ current \in Step /\ current[2] = "WINDOW_CLOSE" /\ steps[current] = "SUCCEEDED"
      /\ stop = "COMPLETED" /\ runStatus = "RUNNING"
      /\ \A s \in Step : steps[s] = "RUNNING" => s = current
  BY DEF PlaceInv, Live
<1>2. \A s \in Step : IF s[2] \in ContinuationKind THEN steps[s] = "ABSENT"
                      ELSE steps[s] \notin Unfinished
  BY DEF OrderInv, Live
<1>3. ASSUME NEW s \in Step, s[1] \in continuing, s[2] = "OPENING", steps[s] = "ABSENT"
      PROVE  FALSE
  <2>1. Close(s[1]) \in Step /\ Close(s[1])[1] = s[1] /\ Close(s[1])[2] = "WINDOW_CLOSE"
    BY RowFacts DEF Close
  <2>2. steps[Close(s[1])] = "ABSENT"
    BY <1>3, <2>1 DEF OrderInv, Live
  <2>3. steps[Close(s[1])] = "SUCCEEDED"
    BY <1>3, <2>1 DEF OrderInv, Live
  <2> QED BY <2>2, <2>3
<1> QED BY <1>1, <1>2, <1>3 DEF TypeOK

(* What several continuation plans (their rows are added) do to the          *)
(* invariant, with or without a failure of the token in hand.                *)
LEMMA PlannedRows ==
  ASSUME FactoryInv, pc = "schedule", NEW added, NEW failed \in BOOLEAN,
         \A s \in Step : s \in added => s[2] \in ContinuationKind /\ s[1] \in continuing,
         \A r, s \in Step :
           (r[1] = s[1] /\ r[2] \in ContinuationKind /\ s[2] \in ContinuationKind)
             => (r \in added <=> s \in added),
         \A s \in Step : steps'[s] =
            IF failed /\ s \in added /\ s[1] = current[1] THEN "CANCELLED"
            ELSE IF failed /\ s = current THEN "FAILED"
            ELSE IF s \in added THEN "PENDING" ELSE steps[s],
         pc' = "loop", stop' = stop, runStatus' = runStatus
  PROVE  RowsInv'
<1> USE DEF FactoryInv
<1>1. /\ current \in Step /\ current[2] = "WINDOW_CLOSE" /\ steps[current] = "SUCCEEDED"
      /\ stop = "COMPLETED" /\ runStatus = "RUNNING"
      /\ \A s \in Step : steps[s] # "RUNNING"
      /\ \A s \in Step : s[2] \in ContinuationKind => steps[s] = "ABSENT"
      /\ \A s \in Step : s[2] \notin ContinuationKind => steps[s] \notin Unfinished
      /\ \A s \in Step : s[1] \in continuing /\ s[2] = "OPENING" => steps[s] # "ABSENT"
  BY Scheduling
<1>2. \A s \in Step : s[2] \notin ContinuationKind
                         => s \notin added /\ steps'[s] \notin Unfinished
                            /\ (steps'[s] = "ABSENT" <=> steps[s] = "ABSENT")
  BY <1>1 DEF Unfinished
<1>3. \A s \in Step : s[2] \in ContinuationKind /\ s \notin added => steps'[s] = "ABSENT"
  BY <1>1 DEF ContinuationKind
<1>4. \A s \in Step : s \in added => steps'[s] \in {"PENDING", "CANCELLED"}
  BY <1>1, <1>2
<1>5. PlaceInv'
  <2>1. \A s \in Step : steps'[s] # "RUNNING"
    BY <1>1
  <2> QED BY <1>1, <2>1 DEF PlaceInv, Live
<1>6. OrderInv'
  <2> SUFFICES ASSUME NEW r \in Step, NEW s \in Step
               PROVE
    /\ r[1] = s[1] /\ r[2] = "OPENING" /\ s[2] # "OPENING"
         /\ steps'[r] \in {"ABSENT", "PENDING", "RUNNING"} => steps'[s] = "ABSENT"
    /\ r[2] = "OPENING" => steps'[r] \notin Unfinished
    /\ r[2] = "SNAPSHOT" => steps'[r] \notin Unfinished
    BY DEF OrderInv
  <2>1. r[2] \in {"OPENING", "SNAPSHOT"} => steps'[r] \notin Unfinished
    BY <1>2 DEF ContinuationKind
  <2>2. ASSUME r[1] = s[1], r[2] = "OPENING", s[2] # "OPENING",
               steps'[r] \in {"ABSENT", "PENDING", "RUNNING"}
        PROVE  steps'[s] = "ABSENT"
    <3>1. steps[r] = "ABSENT" /\ s[1] \notin continuing
      BY <1>1, <1>2, <2>1, <2>2 DEF Unfinished, ContinuationKind
    <3>2. steps[s] = "ABSENT"
      BY <2>2, <3>1 DEF OrderInv, Live
    <3> QED BY <1>1, <3>1, <3>2
  <2> QED BY <2>1, <2>2
<1>7. BarrierInv'
  BY <1>2 DEF BarrierInv
<1>8. WholeInv'
  <2> SUFFICES ASSUME NEW r \in Step, NEW s \in Step,
                      NEW K \in {AnchoredKind, ContinuationKind}, r[1] = s[1],
                      r[2] \in K, s[2] \in K, steps'[r] = "ABSENT"
               PROVE  steps'[s] = "ABSENT"
    BY DEF WholeInv
  <2>1. CASE K = AnchoredKind
    <3>1. r[2] \notin ContinuationKind /\ s[2] \notin ContinuationKind
      BY <2>1 DEF AnchoredKind, ContinuationKind
    <3>2. steps[s] = "ABSENT"
      BY <1>1, <1>2, <2>1, <3>1 DEF WholeInv
    <3> QED BY <1>2, <3>1, <3>2
  <2>2. CASE K = ContinuationKind
    <3>1. r \notin added
      BY <1>4
    <3> QED BY <1>3, <2>2, <3>1
  <2> QED BY <2>1, <2>2
<1>9. DropInv'
  <2> SUFFICES ASSUME NEW s \in Step, steps'[s] = "CANCELLED"
               PROVE  \E r \in Step : r[1] = s[1] /\ steps'[r] = "FAILED"
    BY DEF DropInv
  <2>1. CASE s \in added
    <3>1. failed /\ s[1] = current[1] /\ steps'[current] = "FAILED"
      BY <1>1, <1>2, <2>1
    <3> QED BY <1>1, <3>1
  <2>2. CASE s \notin added
    <3>1. PICK r \in Step : r[1] = s[1] /\ steps[r] = "FAILED"
      BY <1>1, <2>2 DEF DropInv
    <3>2. steps'[r] = "FAILED"
      BY <1>1, <3>1
    <3> QED BY <3>1, <3>2
  <2> QED BY <2>1, <2>2
<1> QED BY <1>5, <1>6, <1>7, <1>8, <1>9 DEF RowsInv

(* Every continuing token gets its whole plan.                               *)
LEMMA ScheduleContinuationsRows ==
  ASSUME FactoryInv, ScheduleContinuations PROVE RowsInv'
<1> DEFINE added == UNION {Continuation(t) : t \in continuing}
<1>1. /\ pc = "schedule" /\ pc' = "loop" /\ stop' = stop /\ runStatus' = runStatus
      /\ steps' = Set(steps, added, "PENDING")
  BY DEF ScheduleContinuations, insert
<1>2. \A s \in Step : (s \in added) <=> (s[2] \in ContinuationKind /\ s[1] \in continuing)
  BY RowFacts DEF FactoryInv, TypeOK
<1> HIDE DEF added
<1>3. \A s \in Step : steps'[s] = IF s \in added THEN "PENDING" ELSE steps[s]
  BY <1>1, SetRows
<1> QED BY <1>1, <1>2, <1>3, PlannedRows

(* The rows of the tokens before t are those of whole plans.                 *)
LEMMA PlannedBeforeRows ==
  ASSUME TypeOK, NEW t
  PROVE  \A s \in Step : (s \in PlannedBefore(t))
            <=> (s[2] \in ContinuationKind /\ s[1] \in continuing /\ s[1] < t)
BY RowFacts DEF TypeOK, PlannedBefore

(* A plan that cannot be made leaves those before it, but for the rows of    *)
(* the token in hand.                                                        *)
LEMMA ScheduleFailsRows ==
  ASSUME FactoryInv, ScheduleFails PROVE RowsInv'
<1>1. PICK t \in continuing :
        steps' = Set(Set(insert(steps, PlannedBefore(t)), {current}, "FAILED"),
                     {s \in OfToken(current[1]) : s \in PlannedBefore(t)}, "CANCELLED")
  BY DEF ScheduleFails
<1> DEFINE added == PlannedBefore(t)
           dropped == {s \in OfToken(current[1]) : s \in added}
<1>2. /\ pc = "schedule" /\ pc' = "loop" /\ stop' = stop /\ runStatus' = runStatus
      /\ current \in Step
  BY DEF ScheduleFails, FactoryInv, PlaceInv
<1>3. \A s \in Step : (s \in added) <=> (s[2] \in ContinuationKind /\ s[1] \in continuing /\ s[1] < t)
  BY PlannedBeforeRows DEF FactoryInv
<1>4. \A s \in Step : (s \in dropped) <=> (s \in added /\ s[1] = current[1])
  BY <1>2, RowFacts
<1>5. steps' = Set(Set(Set(steps, added, "PENDING"), {current}, "FAILED"), dropped, "CANCELLED")
  BY <1>1 DEF insert
<1> HIDE DEF added, dropped
<1>6. \A s \in Step : steps'[s] =
         IF s \in added /\ s[1] = current[1] THEN "CANCELLED"
         ELSE IF s = current THEN "FAILED"
         ELSE IF s \in added THEN "PENDING" ELSE steps[s]
  BY <1>4, <1>5, SetRows
<1> QED BY <1>2, <1>3, <1>6, PlannedRows

(* A ceiling reached while continuations are planned.                        *)
LEMMA ScheduleOverBudgetRows ==
  ASSUME FactoryInv, ScheduleOverBudget PROVE RowsInv'
<1>0. PICK t \in continuing : \E part \in PartOfContinuation(t) :
         GlobalStop(PlannedBefore(t) \cup part)
  BY DEF ScheduleOverBudget
<1>1. PICK part \in PartOfContinuation(t) : GlobalStop(PlannedBefore(t) \cup part)
  BY <1>0
<1> DEFINE added == PlannedBefore(t) \cup part
<1>2. /\ pc = "schedule" /\ pc \in Live
      /\ current \in Step /\ current[2] = "WINDOW_CLOSE" /\ steps[current] = "SUCCEEDED"
      /\ \A s \in Step : s[2] \notin ContinuationKind => steps[s] \notin Unfinished
  BY Scheduling DEF ScheduleOverBudget, Live
<1>3. \A s \in Step : s \in part => s[2] \in ContinuationKind
  BY DEF PartOfContinuation, ContinuationKind
<1>4. \A s \in Step : s \in added => s[2] \in ContinuationKind
  BY <1>3, PlannedBeforeRows DEF FactoryInv
<1>5. GlobalStop(added)
  BY <1>1
<1> HIDE DEF added
<1>6. current \notin added
  BY <1>2, <1>4 DEF ContinuationKind
<1> QED BY <1>2, <1>4, <1>5, <1>6, GlobalStopRows

(* The finally block drops what is pending, which is nothing when the run    *)
(* came to its end.                                                          *)
LEMMA CancelPendingRows ==
  ASSUME FactoryInv, CancelPending PROVE RowsInv'
<1> USE DEF FactoryInv
<1>1. \A s \in Step : steps'[s] = IF steps[s] = "PENDING" THEN "CANCELLED" ELSE steps[s]
  <2>1. \A s \in Step : (s \in InStatus(Step, "PENDING")) <=> steps[s] = "PENDING"
    BY DEF InStatus
  <2> QED BY <2>1, SetRows DEF CancelPending
<1>2. /\ pc = "stopping" /\ pc' = "reporting" /\ stop' = stop
      /\ runStatus' = runStatus /\ current' = current
  BY DEF CancelPending
<1>3. PlaceInv'
  BY <1>1, <1>2 DEF PlaceInv, Live, Unfinished
<1>4. OrderInv'
  BY <1>2 DEF OrderInv, Live
<1>5. BarrierInv'
  BY <1>1 DEF BarrierInv, Unfinished
<1>6. WholeInv'
  BY <1>1, <1>2 DEF WholeInv
<1>7. DropInv'
  <2>1. stop = "COMPLETED" => \A s \in Step : steps'[s] = steps[s]
    BY <1>1, <1>2 DEF PlaceInv, Unfinished
  <2> QED BY <1>2, <2>1 DEF DropInv
<1> QED BY <1>3, <1>4, <1>5, <1>6, <1>7 DEF RowsInv

-----------------------------------------------------------------------------
(* The invariant and the theorems *)

(* Every step of the factory keeps the invariant.                            *)
LEMMA StepInv == FactoryInv /\ [Next]_vars => FactoryInv'
<1> SUFFICES ASSUME FactoryInv, [Next]_vars PROVE FactoryInv'
  OBVIOUS
<1>1. TypeOK' /\ StepJobParity'
  BY StepTypes DEF FactoryInv
<1> SUFFICES RowsInv'
  BY <1>1 DEF FactoryInv, RowsInv
<1>2. CASE PlanOpenings
  BY <1>2, PlanOpeningsRows
<1>3. CASE \/ PlanningStops \/ NothingPending \/ LoopStops \/ StepInterrupted
           \/ BarrierDefers \/ FinalReport \/ FinallyRaises \/ Crash \/ UNCHANGED vars
  BY <1>1, <1>3, QuietRows
<1>4. ASSUME NEW s \in Step, Claim(s) PROVE RowsInv'
  BY <1>4, ClaimRows
<1>5. CASE StepOverBudget
  BY <1>5, StepOverBudgetRows
<1>6. CASE StepFails \/ EvaluateFails
  BY <1>6, TokenFailsRows DEF StepFails, EvaluateFails
<1>7. CASE StepSucceeds
  BY <1>7, StepSucceedsRows
<1>8. CASE Evaluate
  BY <1>8, EvaluateRows
<1>9. CASE ScheduleContinuations
  BY <1>9, ScheduleContinuationsRows
<1>10. CASE ScheduleFails
  BY <1>10, ScheduleFailsRows
<1>11. CASE ScheduleOverBudget
  BY <1>11, ScheduleOverBudgetRows
<1>12. CASE CancelPending
  BY <1>12, CancelPendingRows
<1> QED
  BY <1>2, <1>3, <1>4, <1>5, <1>6, <1>7, <1>8, <1>9, <1>10, <1>11, <1>12
  DEF Next, Advance, Loop, ExecuteStep, Barrier, Finally

(* The inductive invariant of the run loop holds in every state.             *)
THEOREM FactoryInvariant == Spec => []FactoryInv
<1>1. Init => FactoryInv
  BY InitTypes, InitRows DEF FactoryInv, RowsInv
<1> QED BY <1>1, StepInv, PTL DEF Spec

(* The columns hold only the statuses, places and reasons the code writes.   *)
THEOREM TypeCorrect == Spec => []TypeOK
<1>1. FactoryInv => TypeOK
  BY DEF FactoryInv
<1> QED BY <1>1, FactoryInvariant, PTL

(* A row of run_steps and its Scheduler job never disagree, whatever path    *)
(* ended the step (_update_step with complete_job, fail_job or cancel_job).  *)
THEOREM ParityHolds == Spec => []StepJobParity
<1>1. FactoryInv => StepJobParity
  BY DEF FactoryInv
<1> QED BY <1>1, FactoryInvariant, PTL

(* No two steps are RUNNING at once, and none when the loop looks for the    *)
(* next one to claim.                                                        *)
THEOREM OneStepAtATime == Spec => []OneAtATime
<1>1. FactoryInv => OneAtATime
  BY DEF FactoryInv, PlaceInv, OneAtATime, InStatus
<1> QED BY <1>1, FactoryInvariant, PTL

(* No continuation is planned while a first window of any token is           *)
(* unfinished (_run_selective_1h_campaign_barrier).                          *)
THEOREM BarrierAlwaysHolds == Spec => []BarrierHolds
<1>1. FactoryInv => BarrierHolds
  <2> SUFFICES ASSUME FactoryInv,
                      NEW u \in Token, NEW r \in Continuation(u), steps[r] # "ABSENT",
                      NEW t \in Token, NEW s \in FirstWindow(t)
               PROVE  steps[s] \notin {"PENDING", "RUNNING"}
    BY DEF BarrierHolds
  <2>1. r \in Step /\ r[2] \in ContinuationKind
    BY RowFacts DEF Continuation, Step, StepKind, ContinuationKind
  <2>2. s \in Step /\ s[2] \notin ContinuationKind
    BY RowFacts DEF FirstWindow, OfToken, Step
  <2> QED BY <2>1, <2>2 DEF FactoryInv, BarrierInv, Unfinished
<1> QED BY <1>1, FactoryInvariant, PTL

(* A token has all the rows of a plan or none, unless a ceiling ended the    *)
(* run (_insert_step_and_job).                                               *)
THEOREM PlansAlwaysWhole == Spec => []PlansAreWhole
<1>1. FactoryInv => PlansAreWhole
  <2> SUFFICES ASSUME FactoryInv, stop # "BUDGET", NEW t \in Token,
                      NEW plan \in {Anchored(t), Continuation(t)},
                      NEW r \in plan, steps[r] = "ABSENT", NEW s \in plan
               PROVE  steps[s] = "ABSENT"
    BY DEF PlansAreWhole
  <2>1. r \in Step /\ s \in Step
    BY DEF Anchored, Continuation, Close, Step, StepKind
  <2>2. PICK K \in {AnchoredKind, ContinuationKind} :
          r[1] = t /\ s[1] = t /\ r[2] \in K /\ s[2] \in K
    BY <2>1, RowFacts
  <2> QED BY <2>1, <2>2 DEF FactoryInv, WholeInv
<1> QED BY <1>1, FactoryInvariant, PTL

(* A run reported COMPLETED left no row unfinished and dropped rows only of  *)
(* tokens that failed (_primary_terminal_cause).                             *)
THEOREM CompletedRunsAreHonest == Spec => []CompletedIsHonest
<1>1. FactoryInv => CompletedIsHonest
  <2> SUFFICES ASSUME FactoryInv, runStatus = "COMPLETED", NEW s \in Step
               PROVE  /\ steps[s] \notin {"PENDING", "RUNNING"}
                      /\ jobs[s] \notin {"PENDING", "RUNNING"}
                      /\ steps[s] = "CANCELLED" => InStatus(OfToken(s[1]), "FAILED") # {}
    BY DEF CompletedIsHonest
  <2>1. stop = "COMPLETED" /\ steps[s] \notin {"PENDING", "RUNNING"} /\ jobs = steps
    BY DEF FactoryInv, PlaceInv, StepJobParity, Unfinished
  <2>2. ASSUME steps[s] = "CANCELLED" PROVE InStatus(OfToken(s[1]), "FAILED") # {}
    <3>1. PICK r \in Step : r[1] = s[1] /\ steps[r] = "FAILED"
      BY <2>1, <2>2 DEF FactoryInv, DropInv
    <3>2. r \in OfToken(s[1])
      BY <3>1, RowFacts
    <3> QED BY <3>1, <3>2 DEF InStatus
  <2> QED BY <2>1, <2>2
<1> QED BY <1>1, FactoryInvariant, PTL

(* Whatever a step or the barrier does to the rows of one token, the rows    *)
(* other tokens already have keep their status: a plan only adds rows, and   *)
(* a failure cancels by token.                                               *)
THEOREM TokensAreIsolated == Spec => TokenIsolation
<1>1. ASSUME FactoryInv, [Next]_vars, pc \in {"step", "barrier", "schedule"},
             NEW s \in Step \ OfToken(current[1]), steps[s] # "ABSENT"
      PROVE  steps'[s] = steps[s]
  <2> USE DEF FactoryInv
  <2>1. current \in Step /\ s \in Step /\ s # current /\ s[1] # current[1]
    BY <1>1, RowFacts DEF PlaceInv
  <2>2. CASE UNCHANGED steps
    BY <2>2
  <2>3. ASSUME NEW added, GlobalStop(added), s \notin added
        PROVE  steps'[s] = steps[s]
    <3>1. steps' = Set(Set(steps, {current}, "FAILED"), added, "PENDING")
      BY <2>3 DEF GlobalStop, insert
    <3> QED BY <2>1, <2>3, <3>1, SetRows
  <2>4. CASE StepOverBudget
    <3>1. \A p \in PartOfAnchored(current[1]) : s \notin p
      BY <2>1 DEF PartOfAnchored
    <3> QED BY <2>3, <2>4, <3>1 DEF StepOverBudget
  <2>5. CASE TokenFails
    <3>1. s \notin InStatus(OfToken(current[1]), "PENDING")
      BY <1>1 DEF InStatus
    <3>2. steps' = Set(Set(steps, {current}, "FAILED"),
                       InStatus(OfToken(current[1]), "PENDING"), "CANCELLED")
      BY <2>5 DEF TokenFails
    <3> QED BY <2>1, <3>1, <3>2, SetRows
  <2>6. CASE StepSucceeds
    <3>1. PICK added : /\ steps' = Set(Set(steps, {current}, "SUCCEEDED"), added, "PENDING")
                       /\ added \in {Anchored(current[1]), {}}
      BY <2>6 DEF StepSucceeds, insert
    <3>2. s \notin added
      BY <2>1, <3>1, RowFacts
    <3> QED BY <2>1, <3>1, <3>2, SetRows
  <2>7. ASSUME pc = "schedule" PROVE s[2] \notin ContinuationKind
    BY <1>1, <2>1, <2>7, Scheduling
  <2>8. CASE ScheduleContinuations
    <3>1. steps' = Set(steps, UNION {Continuation(t) : t \in continuing}, "PENDING")
      BY <2>8 DEF ScheduleContinuations, insert
    <3>2. s[2] \notin ContinuationKind
      BY <2>7, <2>8 DEF ScheduleContinuations
    <3>3. \A t \in continuing : s \notin Continuation(t)
      BY <3>2 DEF Continuation, ContinuationKind
    <3> QED BY <2>1, <3>1, <3>3, SetRows
  <2>9. CASE ScheduleFails
    <3>1. PICK t \in continuing :
            steps' = Set(Set(insert(steps, PlannedBefore(t)), {current}, "FAILED"),
                         {r \in OfToken(current[1]) : r \in PlannedBefore(t)}, "CANCELLED")
      BY <2>9 DEF ScheduleFails
    <3>2. s[2] \notin ContinuationKind
      BY <2>7, <2>9 DEF ScheduleFails
    <3>3. s \notin PlannedBefore(t)
      BY <1>1, <2>1, <3>2, PlannedBeforeRows
    <3> QED BY <2>1, <3>1, <3>3, SetRows DEF insert
  <2>10. CASE ScheduleOverBudget
    <3>1. PICK t \in continuing : \E part \in PartOfContinuation(t) :
            GlobalStop(PlannedBefore(t) \cup part)
      BY <2>10 DEF ScheduleOverBudget
    <3>2. PICK part \in PartOfContinuation(t) : GlobalStop(PlannedBefore(t) \cup part)
      BY <3>1
    <3>3. s[2] \notin ContinuationKind
      BY <2>7, <2>10 DEF ScheduleOverBudget
    <3>4. s \notin PlannedBefore(t)
      BY <1>1, <2>1, <3>3, PlannedBeforeRows
    <3>5. s \notin part
      BY <3>3 DEF PartOfContinuation, ContinuationKind
    <3> QED BY <2>3, <3>2, <3>4, <3>5
  <2> QED
    BY <1>1, <2>2, <2>4, <2>5, <2>6, <2>8, <2>9, <2>10
    DEF Next, Advance, Loop, ExecuteStep, Barrier, Finally, PlanOpenings, PlanningStops,
        NothingPending, LoopStops, Claim, StepInterrupted, StepFails, BarrierDefers,
        Evaluate, EvaluateFails, CancelPending, FinalReport, FinallyRaises, Crash, vars
<1>2. FactoryInv /\ [Next]_vars =>
        [(pc \in {"step", "barrier", "schedule"}) =>
           \A s \in Step \ OfToken(current[1]) :
             (steps[s] # "ABSENT") => (steps'[s] = steps[s])]_vars
  BY <1>1
<1> QED BY <1>2, FactoryInvariant, PTL DEF Spec, TokenIsolation

-----------------------------------------------------------------------------
(* Rows move forward                                                         *)

(* What a step does to one row, action by action: a row is inserted only     *)
(* where there was none, claimed when it was PENDING, closed when it was     *)
(* RUNNING, and dropped when it was PENDING.                                 *)
LEMMA RowGoesOn ==
  ASSUME FactoryInv, [Next]_vars, NEW s \in Step
  PROVE  Onward(steps[s], steps'[s]) \/ CloseTakenBack(s)
<1> USE DEF FactoryInv
<1> DEFINE Goal == Onward(steps[s], steps'[s]) \/ CloseTakenBack(s)
<1>0. ASSUME steps'[s] = steps[s] PROVE Goal
  BY <1>0 DEF Onward
<1> SUFFICES ASSUME steps'[s] # steps[s] PROVE Goal
  BY <1>0
<1>1. CASE PlanOpenings
  <2>1. steps[s] = "ABSENT"
    BY <1>1 DEF PlanOpenings, PlaceInv
  <2>2. PICK m \in 0..N : steps' = Set(steps, {Opening(t) : t \in 1..m}, "PENDING")
    BY <1>1 DEF PlanOpenings, insert
  <2>3. steps'[s] \in {"ABSENT", "PENDING"}
    BY <2>1, <2>2, SetRows
  <2> QED BY <2>1, <2>3 DEF Onward
<1>2. ASSUME NEW c \in Step, Claim(c) PROVE Goal
  <2>1. steps'[s] = IF s \in {c} THEN "RUNNING" ELSE steps[s]
    BY <1>2, SetRows DEF Claim
  <2>2. steps[s] = "PENDING" /\ steps'[s] = "RUNNING"
    BY <1>2, <2>1 DEF Claim, NextPending
  <2> QED BY <2>2 DEF Onward
<1>3. ASSUME NEW added, GlobalStop(added), current \in Step, steps[current] = "RUNNING" \/ CloseTakenBack(current),
             s \in added => steps[s] = "ABSENT"
      PROVE  Goal
  <2>1. steps'[s] = IF s \in added THEN "PENDING"
                    ELSE IF s = current THEN "FAILED" ELSE steps[s]
    BY <1>3, SetRows DEF GlobalStop, insert
  <2>2. CASE s \in added
    BY <1>3, <2>1, <2>2 DEF Onward
  <2>3. CASE s \notin added
    <3>1. s = current /\ steps'[s] = "FAILED"
      BY <2>1, <2>3
    <3> QED BY <1>3, <3>1 DEF Onward
  <2> QED BY <2>2, <2>3
<1>4. CASE StepOverBudget
  <2>1. current \in Step /\ steps[current] = "RUNNING" /\ pc = "step"
    BY <1>4 DEF StepOverBudget, PlaceInv
  <2>2. CASE GlobalStop({})
    BY <1>3, <2>1, <2>2
  <2>3. CASE current[2] = "OPENING" /\ \E p \in PartOfAnchored(current[1]) : GlobalStop(p)
    <3>1. PICK p \in PartOfAnchored(current[1]) : GlobalStop(p)
      BY <2>3
    <3>2. s \in p => s[1] = current[1] /\ s[2] = "SNAPSHOT"
      BY DEF PartOfAnchored
    <3>3. s \in p => steps[s] = "ABSENT"
      BY <2>1, <2>3, <3>2 DEF OrderInv, Live
    <3> QED BY <1>3, <2>1, <3>1, <3>3
  <2> QED BY <1>4, <2>2, <2>3 DEF StepOverBudget
<1>5. CASE StepFails \/ EvaluateFails
  <2> DEFINE dropped == InStatus(OfToken(current[1]), "PENDING")
  <2>1. /\ TokenFails /\ pc \in {"step", "barrier"} /\ current \in Step
        /\ pc = "step" => steps[current] = "RUNNING"
        /\ pc = "barrier" => current[2] = "WINDOW_CLOSE" /\ steps[current] = "SUCCEEDED"
    BY <1>5 DEF StepFails, EvaluateFails, PlaceInv
  <2>2. s \in dropped => steps[s] = "PENDING"
    BY DEF InStatus
  <2>3. steps' = Set(Set(steps, {current}, "FAILED"), dropped, "CANCELLED")
    BY <2>1 DEF TokenFails
  <2> HIDE DEF dropped
  <2>4. steps'[s] = IF s \in dropped THEN "CANCELLED"
                    ELSE IF s = current THEN "FAILED" ELSE steps[s]
    BY <2>3, SetRows
  <2>5. CASE s \in dropped
    BY <2>2, <2>4, <2>5 DEF Onward
  <2>6. CASE s \notin dropped
    <3>1. s = current /\ steps'[s] = "FAILED"
      BY <2>4, <2>6
    <3> QED BY <2>1, <3>1 DEF Onward, CloseTakenBack
  <2> QED BY <2>5, <2>6
<1>6. CASE StepSucceeds
  <2> DEFINE added == IF current[2] = "OPENING" THEN Anchored(current[1]) ELSE {}
  <2>1. current \in Step /\ steps[current] = "RUNNING" /\ pc = "step"
    BY <1>6 DEF StepSucceeds, PlaceInv
  <2>2. s \in added => steps[s] = "ABSENT"
    <3>1. s \in added => /\ current[2] = "OPENING" /\ s[1] = current[1]
                         /\ s[2] \in AnchoredKind
      BY <2>1, RowFacts
    <3> QED BY <2>1, <3>1 DEF OrderInv, Live, AnchoredKind
  <2>3. steps' = Set(Set(steps, {current}, "SUCCEEDED"), added, "PENDING")
    BY <1>6 DEF StepSucceeds, insert
  <2> HIDE DEF added
  <2>4. steps'[s] = IF s \in added THEN "PENDING"
                    ELSE IF s = current THEN "SUCCEEDED" ELSE steps[s]
    BY <2>3, SetRows
  <2>5. CASE s \in added
    BY <2>2, <2>4, <2>5 DEF Onward
  <2>6. CASE s \notin added
    BY <2>1, <2>4, <2>6 DEF Onward
  <2> QED BY <2>5, <2>6
<1>7. CASE ScheduleContinuations
  <2> DEFINE added == UNION {Continuation(t) : t \in continuing}
  <2>1. pc = "schedule" /\ steps' = Set(steps, added, "PENDING")
    BY <1>7 DEF ScheduleContinuations, insert
  <2>2. s \in added => s[2] \in ContinuationKind
    BY RowFacts DEF TypeOK
  <2> HIDE DEF added
  <2>3. s \in added /\ steps'[s] = "PENDING"
    BY <2>1, SetRows
  <2>4. steps[s] = "ABSENT"
    BY <2>1, <2>2, <2>3, Scheduling
  <2> QED BY <2>3, <2>4 DEF Onward
<1>8. CASE ScheduleFails
  <2>0. pc = "schedule" /\ current \in Step
    BY <1>8 DEF ScheduleFails, PlaceInv
  <2>1. PICK t \in continuing :
          steps' = Set(Set(insert(steps, PlannedBefore(t)), {current}, "FAILED"),
                       {r \in OfToken(current[1]) : r \in PlannedBefore(t)}, "CANCELLED")
    BY <1>8 DEF ScheduleFails
  <2> DEFINE dropped == {r \in OfToken(current[1]) : r \in PlannedBefore(t)}
  <2>2. s \in PlannedBefore(t) => steps[s] = "ABSENT"
    BY <2>0, PlannedBeforeRows, Scheduling
  <2>3. s \in dropped => s \in PlannedBefore(t)
    OBVIOUS
  <2>4. steps' = Set(Set(Set(steps, PlannedBefore(t), "PENDING"), {current}, "FAILED"),
                     dropped, "CANCELLED")
    BY <2>1 DEF insert
  <2> HIDE DEF dropped
  <2>5. steps'[s] = IF s \in dropped THEN "CANCELLED"
                    ELSE IF s = current THEN "FAILED"
                    ELSE IF s \in PlannedBefore(t) THEN "PENDING" ELSE steps[s]
    BY <2>4, SetRows
  <2>6. CASE s = current /\ s \notin dropped
    BY <2>0, <2>5, <2>6, Scheduling DEF CloseTakenBack
  <2>7. CASE s # current \/ s \in dropped
    BY <2>2, <2>3, <2>5, <2>7 DEF Onward
  <2> QED BY <2>6, <2>7
<1>9. CASE ScheduleOverBudget
  <2>0. pc = "schedule" /\ current \in Step
    BY <1>9 DEF ScheduleOverBudget, PlaceInv
  <2>1. PICK t \in continuing : \E part \in PartOfContinuation(t) :
          GlobalStop(PlannedBefore(t) \cup part)
    BY <1>9 DEF ScheduleOverBudget
  <2>2. PICK part \in PartOfContinuation(t) : GlobalStop(PlannedBefore(t) \cup part)
    BY <2>1
  <2>3. \A r \in Step : r \in PlannedBefore(t) \cup part => r[2] \in ContinuationKind
    BY PlannedBeforeRows DEF PartOfContinuation, ContinuationKind
  <2>4. /\ current[2] = "WINDOW_CLOSE" /\ steps[current] = "SUCCEEDED"
        /\ \A r \in Step : r[2] \in ContinuationKind => steps[r] = "ABSENT"
    BY <2>0, Scheduling
  <2>5. steps'[current] = "FAILED"
    <3>1. current \notin PlannedBefore(t) \cup part
      BY <2>0, <2>3, <2>4 DEF ContinuationKind
    <3>2. steps' = Set(Set(steps, {current}, "FAILED"), PlannedBefore(t) \cup part, "PENDING")
      BY <2>2 DEF GlobalStop, insert
    <3> QED BY <2>0, <3>1, <3>2, SetRows
  <2> QED BY <1>3, <2>0, <2>2, <2>3, <2>4, <2>5 DEF CloseTakenBack
<1>10. CASE CancelPending
  <2>1. s \in InStatus(Step, "PENDING") /\ steps'[s] = "CANCELLED"
    BY <1>10, SetRows DEF CancelPending
  <2> QED BY <2>1 DEF InStatus, Onward
<1>11. CASE UNCHANGED steps
  BY <1>11
<1> QED
  BY <1>1, <1>2, <1>4, <1>5, <1>6, <1>7, <1>8, <1>9, <1>10, <1>11
  DEF Next, Advance, Loop, ExecuteStep, Barrier, Finally, PlanningStops, NothingPending,
      LoopStops, StepInterrupted, BarrierDefers, Evaluate, FinalReport, FinallyRaises,
      Crash, vars

(* The order of a row's statuses: inserted once, claimed once, closed once;  *)
(* only the close in hand can be taken back (the handler of the step fails a *)
(* close that was already committed as SUCCEEDED).                           *)
THEOREM RowsOnlyMoveForward == Spec => RowsMoveForward
<1>1. FactoryInv /\ [Next]_vars =>
        [\A s \in Step : Onward(steps[s], steps'[s]) \/ CloseTakenBack(s)]_vars
  BY RowGoesOn
<1> QED BY <1>1, FactoryInvariant, PTL DEF Spec, RowsMoveForward

-----------------------------------------------------------------------------
(* The run comes to an end                                                   *)

(* Onward, and taking a close back, raise the level of the row.              *)
LEMMA OnwardIsUp ==
  ASSUME NEW from, NEW to, from # to,
         Onward(from, to) \/ (from = "SUCCEEDED" /\ to = "FAILED")
  PROVE  Level(to) > Level(from)
<1>1. /\ Level("ABSENT") = 0 /\ Level("PENDING") = 1 /\ Level("RUNNING") = 2
      /\ Level("SUCCEEDED") = 3 /\ Level("FAILED") = 4 /\ Level("CANCELLED") = 4
  BY DEF Level
<1> QED BY <1>1 DEF Onward

(* Only a claim takes the loop back a place, and it raises a row.            *)
LEMMA PlaceGoesOn ==
  ASSUME pc \in Place, Next, \A s \in Step : ~Claim(s)
  PROVE  Stage(pc') > Stage(pc)
<1>0. /\ Stage("planning") = 0 /\ Stage("step") = 1 /\ Stage("barrier") = 2
      /\ Stage("schedule") = 3 /\ Stage("loop") = 4 /\ Stage("stopping") = 5
      /\ Stage("reporting") = 6 /\ Stage("finished") = 7 /\ Stage("raised") = 7
      /\ Stage("crashed") = 7
  BY DEF Stage
<1>1. \/ pc = "planning" /\ pc' \in {"loop", "stopping"}
      \/ pc = "loop" /\ pc' = "stopping"
      \/ pc = "step" /\ pc' \in {"barrier", "loop", "stopping"}
      \/ pc = "barrier" /\ pc' \in {"schedule", "loop", "stopping"}
      \/ pc = "schedule" /\ pc' \in {"loop", "stopping"}
      \/ pc = "stopping" /\ pc' = "reporting"
      \/ pc = "reporting" /\ pc' = "finished"
      \/ pc \in {"stopping", "reporting"} /\ pc' = "raised"
      \/ pc \notin {"finished", "raised", "crashed"} /\ pc' = "crashed"
  BY DEF Next, Advance, Loop, ExecuteStep, Barrier, Finally, PlanOpenings, PlanningStops,
     NothingPending, LoopStops, StepInterrupted, StepOverBudget, GlobalStop, StepFails,
     TokenFails, StepSucceeds, BarrierDefers, Evaluate, EvaluateFails,
     ScheduleContinuations, ScheduleFails, ScheduleOverBudget, CancelPending,
     FinalReport, FinallyRaises, Crash
<1> QED BY <1>0, <1>1 DEF Place

(* Every step raises a row and lowers none, or takes the loop a place on.    *)
LEMMA RunStepFurther ==
  ASSUME FactoryInv, Next
  PROVE  /\ \A s \in Step : Level(steps'[s]) >= Level(steps[s])
         /\ \/ \E s \in Step : Level(steps'[s]) > Level(steps[s])
            \/ Stage(pc') > Stage(pc)
<1>1. ASSUME NEW s \in Step, steps'[s] # steps[s]
      PROVE  Level(steps'[s]) > Level(steps[s])
  <2>1. Onward(steps[s], steps'[s]) \/ (steps[s] = "SUCCEEDED" /\ steps'[s] = "FAILED")
    BY RowGoesOn DEF CloseTakenBack
  <2> QED BY <1>1, <2>1, OnwardIsUp
<1>2. ASSUME NEW s \in Step PROVE Level(steps'[s]) >= Level(steps[s])
  <2>1. Level(steps[s]) \in Nat
    BY DEF FactoryInv, TypeOK, Status, Level
  <2>2. CASE steps'[s] = steps[s]
    BY <2>1, <2>2
  <2>3. CASE steps'[s] # steps[s]
    <3>1. Level(steps'[s]) \in Nat
      BY StepInv DEF FactoryInv, TypeOK, Status, Level
    <3> QED BY <1>1, <2>1, <2>3, <3>1
  <2> QED BY <2>2, <2>3
<1>3. ASSUME NEW s \in Step, Claim(s) PROVE Level(steps'[s]) > Level(steps[s])
  <2>1. steps[s] = "PENDING" /\ steps'[s] = "RUNNING"
    BY <1>3, SetRows DEF Claim, NextPending
  <2> QED BY <1>1, <2>1
<1> QED BY <1>2, <1>3, PlaceGoesOn DEF FactoryInv, TypeOK

(* The measure of the run: the levels of its rows, and then the place of the *)
(* loop, grow with every step, so no run of N tokens goes on for ever.       *)
THEOREM RunGoesForward == Spec => RunAdvances
<1>1. FactoryInv /\ [Next]_vars =>
        [/\ \A s \in Step : Level(steps'[s]) >= Level(steps[s])
         /\ \/ \E s \in Step : Level(steps'[s]) > Level(steps[s])
            \/ Stage(pc') > Stage(pc)]_vars
  BY RunStepFurther
<1> QED BY <1>1, FactoryInvariant, PTL DEF Spec, RunAdvances
=============================================================================
