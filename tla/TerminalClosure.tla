--------------------------- MODULE TerminalClosure ---------------------------
(***************************************************************************)
(* What the coordinator does once the factory has returned:                *)
(* cleanup_campaign_supervision makes cycle, run and campaign terminal,    *)
(* then reconcile_campaign_terminal (operator_cli/                         *)
(* unified_terminal_closure.py) goes through jobs, factory run, token      *)
(* slots and the cycle again, on one connection.                           *)
(*                                                                         *)
(* steps, jobs and runStatus of FactoryRun are what is committed; view is  *)
(* what the connection of the reconciliation sees.  transition_state of    *)
(* campaign_ownership.py runs under "with connection": it COMMITS the      *)
(* connection's open transaction when it returns and ROLLS IT BACK when it *)
(* raises.  The supervision row and its lease are in CampaignSupervision;  *)
(* discovery work and campaign windows were closed by the cleanup.         *)
(***************************************************************************)
EXTENDS FactoryRun

VARIABLES phase,    \* where the closure is
          owner,    \* state of cycle, run and campaign
          view,     \* jobs and runStatus as the connection sees them
          settled,  \* token slots moved from SELECTED to MANUAL_REVIEW
          visited,  \* token slots the loop has been through
          claimed   \* jobs the report counts as cancelled

closureVars == <<phase, owner, view, settled, visited, claimed>>
allVars == <<vars, closureVars>>

Phase == {"factory", "cleaned", "jobs", "slots", "done"}
Owner == {"RUNNING", "TERMINAL_COMPLETED", "TERMINAL_FAILED", "TERMINAL_STOPPED"}

ClosureTypeOK ==
  /\ TypeOK
  /\ phase \in Phase
  /\ owner \in Owner
  /\ view \in [jobs : [Step -> Status], runStatus : RunStatus]
  /\ settled \in SUBSET Token
  /\ visited \in SUBSET Token
  /\ claimed \in SUBSET Step

Committed == [jobs |-> jobs, runStatus |-> runStatus]

ClosureInit ==
  /\ Init
  /\ phase = "factory"
  /\ owner = "RUNNING"
  /\ view = Committed
  /\ settled = {}
  /\ visited = {}
  /\ claimed = {}

Factory == Next /\ UNCHANGED <<phase, owner, settled, visited, claimed>> /\ view' = Committed'

-----------------------------------------------------------------------------
\* with connection: ...

Commit ==
  /\ jobs' = view.jobs
  /\ runStatus' = view.runStatus
  /\ UNCHANGED view

RollBack == view' = Committed /\ UNCHANGED <<jobs, runStatus>>

\* The slots of the tokens the run has selected, and those still SELECTED.
Slot     == {t \in Token : steps[Opening(t)] # "ABSENT"}
Selected == Slot \ (continuing \cup settled)

-----------------------------------------------------------------------------
(***************************************************************************)
(* Both callers pass FAILED only for a FAILED run or for an exception.     *)
(***************************************************************************)
RunFailed == pc = "raised" \/ runStatus = "FAILED"

Cleanup ==
  /\ phase = "factory"
  /\ pc \in {"finished", "raised"}
  /\ owner' = IF RunFailed THEN "TERMINAL_FAILED" ELSE "TERMINAL_COMPLETED"
  /\ phase' = "cleaned"
  /\ UNCHANGED <<vars, view, settled, visited, claimed>>

\* mutant: without "if active or locked"
CancelJobs_EveryJob_Bug ==
  /\ phase = "cleaned"
  /\ claimed' = {s \in Step : jobs[s] # "ABSENT"}
  /\ view' = [jobs |-> cancel_job(view.jobs, claimed'),
              runStatus |-> IF view.runStatus = "RUNNING" THEN "SAFE_STOPPED"
                                                          ELSE view.runStatus]
  /\ phase' = "slots"
  /\ UNCHANGED <<vars, owner, settled, visited>>

(***************************************************************************)
(* Steps 1 to 4: every active or locked job of the run is cancelled, a     *)
(* factory run still RUNNING becomes SAFE_STOPPED; nothing is committed.   *)
(***************************************************************************)
CancelJobs ==
  /\ phase = "cleaned"
  /\ claimed' = Active
  /\ view' = [jobs |-> cancel_job(view.jobs, Active),
              runStatus |-> IF view.runStatus = "RUNNING" THEN "SAFE_STOPPED"
                                                          ELSE view.runStatus]
  /\ phase' = "slots"
  /\ UNCHANGED <<vars, owner, settled, visited>>

\* mutant: a slot moved by the selective evaluation is visited for ever
SettleSlot_Retries_Bug(t) ==
  /\ phase = "slots"
  /\ t \in Selected \ visited
  /\ visited' = visited \cup {t}
  /\ settled' = settled \cup {t}
  /\ Commit
  /\ UNCHANGED <<steps, pc, current, stop, continuing, phase, owner, claimed>>

\* mutant: the slot is moved on a connection of its own
SettleSlot_OwnConnection_Bug(t) ==
  /\ phase = "slots"
  /\ t \in Slot \ visited
  /\ \A u \in Slot \ visited : t <= u
  /\ visited' = visited \cup {t}
  /\ settled' = IF t \in Selected THEN settled \cup {t} ELSE settled
  /\ UNCHANGED <<vars, phase, owner, view, claimed>>

(***************************************************************************)
(* Step 4a, slot by slot: only a slot still SELECTED is moved.             *)
(***************************************************************************)
SettleSlot(t) ==
  /\ phase = "slots"
  /\ t \in Slot \ visited
  /\ \A u \in Slot \ visited : t <= u
  /\ visited' = visited \cup {t}
  /\ IF t \in Selected THEN settled' = settled \cup {t} /\ Commit
                       ELSE UNCHANGED <<settled, jobs, runStatus, view>>
  /\ UNCHANGED <<steps, pc, current, stop, continuing, phase, owner, claimed>>

\* mutant: from the row of the factory run alone
ResolveTerminalState_FromRow_Bug ==
  IF runStatus = "FAILED" THEN "TERMINAL_FAILED"
  ELSE IF runStatus = "COMPLETED" THEN "TERMINAL_COMPLETED"
  ELSE "TERMINAL_STOPPED"

\* resolve_terminal_state; the other two states of a stop are not told apart.
ResolveTerminalState ==
  IF RunFailed THEN "TERMINAL_FAILED"
  ELSE IF runStatus = "COMPLETED" THEN "TERMINAL_COMPLETED"
  ELSE "TERMINAL_STOPPED"

\* mutant: without the check for a terminal state
TransitionOwner_Rewrites_Bug ==
  /\ phase = "slots"
  /\ Slot \subseteq visited
  /\ owner' = ResolveTerminalState
  /\ Commit
  /\ phase' = "done"
  /\ UNCHANGED <<steps, pc, current, stop, continuing, settled, visited, claimed>>

(***************************************************************************)
(* Step 5: the cycle is terminal already.  transition_state returns when   *)
(* the state it is asked for is the one that is there, else it raises      *)
(* "terminal state and first cause are immutable", which _transition takes *)
(* for already_terminal.  The commit that follows has nothing left to do.  *)
(***************************************************************************)
TransitionOwner ==
  /\ phase = "slots"
  /\ Slot \subseteq visited
  /\ IF owner = ResolveTerminalState THEN Commit ELSE RollBack
  /\ phase' = "done"
  /\ UNCHANGED <<steps, pc, current, stop, continuing, owner, settled, visited, claimed>>

Closure == Cleanup \/ CancelJobs \/ (\E t \in Token : SettleSlot(t)) \/ TransitionOwner

ClosureNext == Factory \/ Closure

ClosureSpec == ClosureInit /\ [][ClosureNext]_allVars

(***************************************************************************)
(* The coordinator calls factory, cleanup and reconciliation in turn.      *)
(***************************************************************************)
ClosureFairSpec ==
  /\ ClosureSpec
  /\ WF_allVars(Advance /\ Factory)
  /\ WF_allVars(Closure)

-----------------------------------------------------------------------------
\* Properties.

ActiveWork == {s \in Step : {steps[s], jobs[s]} \cap {"PENDING", "RUNNING"} # {}}

(***************************************************************************)
(* "A terminal campaign requires zero active jobs and zero active work     *)
(* rows" (campaign_active_work.py:14).  A stop or an interrupt in the      *)
(* middle of a step passes every handler of the loop: after the finally    *)
(* block and the closure that one step may still be RUNNING, alone or with *)
(* its job, and no other row of the run is active, whoever stopped it and  *)
(* whatever was rolled back on the way.                                    *)
(***************************************************************************)
OnlyStoppedStepLeft ==
  (phase = "done" /\ pc = "finished") =>
    \A s \in ActiveWork :
      s = current /\ steps[s] = "RUNNING" /\ stop \in {"EXTERNAL", "INTERRUPTED"}

(***************************************************************************)
(* A job the report counts as cancelled is cancelled in the database.      *)
(***************************************************************************)
ClaimedIsCancelled == phase = "done" => \A s \in claimed : jobs[s] = "CANCELLED"

(***************************************************************************)
(* It is not always (finding 3), but the report is wrong as a whole or not *)
(* at all, and only for a run that was stopped in the middle of a step and *)
(* whose every slot had moved to its first hour: any slot moved by the     *)
(* loop commits the cancellations with it, and so does the transition of a *)
(* cycle whose state is the one asked for.                                 *)
(***************************************************************************)
ReportIsWhole ==
  phase = "done" =>
    \/ \A s \in claimed : jobs[s] = "CANCELLED"
    \/ /\ \A s \in claimed : jobs[s] \in {"PENDING", "RUNNING"}
       /\ pc = "finished" /\ stop \in {"EXTERNAL", "INTERRUPTED"}
       /\ Slot \subseteq continuing

(***************************************************************************)
(* A governed terminal never leaves run_status RUNNING, whatever is rolled *)
(* back after it was settled (unified_terminal_closure.py, step 4).        *)
(***************************************************************************)
RunNeverLeftRunning == phase = "done" => runStatus # "RUNNING"

(***************************************************************************)
(* The first terminal state of the campaign is never replaced, although    *)
(* the reconciliation asks for another one.                                *)
(***************************************************************************)
FirstTerminalStands == [][owner # "RUNNING" => owner' = owner]_allVars

(***************************************************************************)
(* Work that already succeeded or failed keeps its own terminal.           *)
(***************************************************************************)
ClosureKeepsTerminalWork ==
  [][(phase # "factory") =>
       \A s \in Step : (jobs[s] \in {"SUCCEEDED", "FAILED"}) => (jobs'[s] = jobs[s])]_allVars

(***************************************************************************)
(* Every run that did not die is closed.                                   *)
(***************************************************************************)
ClosureEnds == <>(phase = "done" \/ pc = "crashed")

PhaseRank(p) == CASE p = "factory" -> 0
                  [] p = "cleaned" -> 1
                  [] p = "jobs" -> 2
                  [] p = "slots" -> 3
                  [] p = "done" -> 4

(***************************************************************************)
(* It cannot go on for ever: every step of factory and closure is one of   *)
(* the bounded number the run makes, takes the closure a phase further, or *)
(* leaves one slot less to visit.                                          *)
(***************************************************************************)
ClosureAdvances ==
  [][\/ PhaseRank(phase') > PhaseRank(phase)
     \/ /\ phase' = phase /\ visited \subseteq visited'
        /\ \E t \in Slot : t \notin visited /\ t \in visited'
     \/ /\ phase = "factory" /\ phase' = "factory"
        /\ \A s \in Step : Level(steps'[s]) >= Level(steps[s])
        /\ \/ \E s \in Step : Level(steps'[s]) > Level(steps[s])
           \/ Stage(pc') > Stage(pc)]_allVars
=============================================================================
