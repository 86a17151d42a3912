-------------------------- MODULE DiscoveryHandoff --------------------------
(***************************************************************************)
(* One campaign after another, from its launch to its closure, as far as   *)
(* discovery, the handoff of two tokens to tracking and the tracking queue *)
(* are concerned: discovery/combined_executor.py, discovery/               *)
(* scheduler_parity.py, operator_cli/origin_lifecycle_campaign.py,         *)
(* operator_cli/tracking_lifecycle_reconciliation.py and the parts of      *)
(* campaign_supervision.py and unified_terminal_closure.py that end them.  *)
(*                                                                         *)
(* db is what is committed, tx what the connection at work sees, saved     *)
(* what ROLLBACK TO SAVEPOINT restores.  The memory factory between the    *)
(* handoff and the post-cycle reconciliation is FactoryRun.                *)
(***************************************************************************)
EXTENDS TrackingQueue, FiniteSets

CONSTANTS Token,         \* tokens discovery may find
          Known,         \* those a campaign may have tracked before
          Secondary,     \* provider lanes that may be left out
          MaxCampaigns,  \* bound: launches
          MaxTime        \* bound: the clock

ASSUME HandoffAssumption ==
  /\ MaxCampaigns \in Nat /\ MaxTime \in Nat
  /\ Known \subseteq Token
  /\ Secondary \subseteq {"gecko", "tracker", "dexscreener"}

VARIABLES
  now,        \* the clock
  pc,         \* where the process is
  db, tx,     \* what is committed, what the open connection sees
  saved,      \* tx when the savepoint was set
  at,         \* evaluated_at, read once per campaign
  facts,      \* the caller passes eligible holder facts for its candidates
  sel,        \* the two selected tokens, or none
  cause,      \* first_terminal_cause of the activation
  failed,     \* the status the closure is given is FAILED
  campaigns   \* launches so far

vars == <<now, pc, db, tx, saved, at, facts, sel, cause, failed, campaigns>>

Ordinal == {1, 2}
Intake  == {"direct", "merge", "origin", "pumpswap", "gates"}
Handoff == <<"handoff_slot_1", "handoff_slot_2">>
HandoffWork == {Handoff[i] : i \in Ordinal}
Work    == Intake \cup Secondary \cup {"select"} \cup HandoffWork

WorkState == {"ABSENT", "RUNNING", "SUCCEEDED", "FAILED", "CANCELLED"}
JobState  == {"ABSENT", "PENDING", "SUCCEEDED", "FAILED", "CANCELLED"}
SlotState == {"ABSENT", "SELECTED", "WINDOW_1H_CONTINUING", "MANUAL_REVIEW"}
Cause == {"NONE", "COMPLETED", "SHORTFALL", "HANDOFF", "REQUALIFICATION", "CEILING", "SHARED"}

INTAKE_SCHEDULER_WORK == 11

Executing == {"intake", "select", "prepare", "slot1", "slot2", "commit"}
Closing   == {"reconcile", "close1", "close2", "close3"}
AtRest    == {"idle", "closed", "dead"}
Place     == Executing \cup {"materialize", "lifecycle", "returned"} \cup Closing \cup AtRest

Record ==
  [queue    : [Token -> Seq([status : QueueStatus,
                             next_check_at : Nat \cup {None},
                             last_checked_at : Nat \cup {None}])],
   work     : [Work -> WorkState],
   jobs     : [Work -> JobState],        \* DISCOVERY_REFRESH, one per work row
   batch    : {"ABSENT", "DISCOVERING", "TERMINAL_FAILED"},
   slots    : [Ordinal -> SlotState],    \* token slots; sel tells their tokens
   first15m : [Ordinal -> JobState],     \* TRACK_NORMAL_FIRST_15M of each slot
   mirror   : BOOLEAN,                   \* the origin-activated selection batch
   owner    : {"RUNNING", "TERMINAL"}]   \* cycle, run, campaign, supervision

TypeOK ==
  /\ now \in 0 .. MaxTime /\ at \in 0 .. MaxTime
  /\ pc \in Place
  /\ db \in Record /\ tx \in Record /\ saved \in Record
  /\ facts \in BOOLEAN /\ failed \in BOOLEAN
  /\ sel \in {<< >>} \cup (Token \X Token)
  /\ cause \in Cause
  /\ campaigns \in 0 .. MaxCampaigns

-----------------------------------------------------------------------------
(***************************************************************************)
(* Rows.                                                                   *)
(***************************************************************************)

\* Nothing of a campaign is there yet but the rows of the queue.
NewCampaign(d) ==
  [queue |-> d.queue,
   work |-> [w \in Work |-> "ABSENT"], jobs |-> [w \in Work |-> "ABSENT"],
   batch |-> "ABSENT",
   slots |-> [i \in Ordinal |-> "ABSENT"], first15m |-> [i \in Ordinal |-> "ABSENT"],
   mirror |-> FALSE, owner |-> "RUNNING"]

\* _create_work: a RUNNING work row and its PENDING job.
CreateWork(d, W) ==
  [d EXCEPT !.work = [w \in Work |-> IF w \in W THEN "RUNNING" ELSE @[w]],
            !.jobs = [w \in Work |-> IF w \in W THEN "PENDING" ELSE @[w]]]

\* Each work row has taken one unit of the scheduler ceiling.
Usage(d) == Cardinality({w \in Work : d.work[w] # "ABSENT"})

\* terminalize_scheduler_job_for_work, for every work row in W: a terminal job stays.
FollowWork(d, W) ==
  [d EXCEPT !.jobs = [w \in Work |->
     IF w \in W /\ @[w] = "PENDING" THEN d.work[w] ELSE @[w]]]

\* mutant: the work row without its job
TerminalizeWork_RowOnly_Bug(d, W, state) ==
  [d EXCEPT !.work = [w \in Work |-> IF w \in W THEN state ELSE @[w]]]

\* _terminalize_work
TerminalizeWork(d, W, state) ==
  FollowWork([d EXCEPT !.work = [w \in Work |-> IF w \in W THEN state ELSE @[w]]], W)

Running(d) == {w \in Work : d.work[w] = "RUNNING"}

\* reconcile_discovery_work_jobs: abandoned work is cancelled, then jobs follow.
ReconcileWork(d) ==
  LET abandoned == [d EXCEPT !.work = [w \in Work |->
                      IF w \in Running(d) THEN "CANCELLED" ELSE @[w]]]
  IN FollowWork(abandoned, {w \in Work : abandoned.work[w] # "ABSENT"})

\* _mark_discovery_batch_failed
BatchFailed(d) == ReconcileWork([d EXCEPT !.batch = "TERMINAL_FAILED"])

CancelActive(jobs) == [i \in DOMAIN jobs |-> IF jobs[i] = "PENDING" THEN "CANCELLED" ELSE jobs[i]]

BothSelected(d) == \A i \in Ordinal : d.slots[i] = "SELECTED"

\* _active_counts of the operational preflight, as far as modelled here.
NothingActive(d) ==
  /\ \A w \in Work : d.jobs[w] # "PENDING" /\ d.work[w] # "RUNNING"
  /\ \A i \in Ordinal : d.first15m[i] # "PENDING"
  /\ d.owner = "TERMINAL"

-----------------------------------------------------------------------------
(***************************************************************************)
(* A known token comes with history: a row that cools down with a stored,  *)
(* a derived or no expiry, or one that ended in manual review.             *)
(***************************************************************************)
History == {<< >>, <<QueueRow("COOLDOWN", Cooldown, 0)>>, <<QueueRow("COOLDOWN", 0, 0)>>,
            <<QueueRow("COOLDOWN", 0, None)>>, <<QueueRow("SKIPPED", 0, 0)>>}

Init ==
  /\ now = 0 /\ at = 0
  /\ pc = "idle"
  /\ \E queue \in [Token -> History] :
       /\ \A t \in Token \ Known : queue[t] = << >>
       /\ db = [NewCampaign([queue |-> queue]) EXCEPT !.owner = "TERMINAL"]
  /\ tx = db /\ saved = db
  /\ facts = FALSE /\ failed = FALSE
  /\ sel = << >>
  /\ cause = "NONE"
  /\ campaigns = 0

Goto(p) == pc' = p

Tick ==
  /\ now < MaxTime
  /\ now' = now + 1
  /\ UNCHANGED <<pc, db, tx, saved, at, facts, sel, cause, failed, campaigns>>

(***************************************************************************)
(* The operational command: preflight, then the rows of a new campaign.    *)
(***************************************************************************)
Launch ==
  /\ pc \in AtRest /\ NothingActive(db)
  /\ campaigns < MaxCampaigns
  /\ campaigns' = campaigns + 1
  /\ db' = NewCampaign(db) /\ tx' = db' /\ saved' = db'
  /\ at' = now
  /\ facts' \in BOOLEAN
  /\ sel' = << >> /\ cause' = "NONE" /\ failed' = FALSE
  /\ Goto("intake")
  /\ UNCHANGED now

-----------------------------------------------------------------------------
(***************************************************************************)
(* CombinedPumpfunCampaignExecutor.execute: one connection, one commit.    *)
(***************************************************************************)

\* Lanes, merge, origin, PumpSwap and gates create and close their own work.
RunIntake ==
  /\ pc = "intake"
  /\ \E planned \in SUBSET Secondary :
       LET done == TerminalizeWork(CreateWork(tx, Intake \cup planned),
                                   Intake \cup planned, "SUCCEEDED")
       IN tx' = CreateWork([done EXCEPT !.batch = "DISCOVERING"], {"select"})
  /\ Goto("select")
  /\ UNCHANGED <<now, db, saved, at, facts, sel, cause, failed, campaigns>>

\* The candidates of a pool that the tracking gate lets through.
ApplyGates(pool) == {t \in pool : HandoffEligible(tx.queue[t], at)}

\* mutant: candidates are not collapsed to one per mint
Selections_PerMarket_Bug(eligible) == eligible \X eligible

\* _select for two vacancies: the seed picks any two of different mints.
Selections(eligible) == {s \in eligible \X eligible : s[1] # s[2]}

SelectTwo ==
  /\ pc = "select"
  /\ \E pool \in SUBSET Token : sel' \in Selections(ApplyGates(pool))
  /\ tx' = TerminalizeWork(tx, {"select"}, "SUCCEEDED")
  /\ Goto("prepare")
  /\ UNCHANGED <<now, db, saved, at, facts, cause, failed, campaigns>>

Shortfall ==
  /\ pc = "select"
  /\ \E pool \in SUBSET Token : Selections(ApplyGates(pool)) = {}
  /\ tx' = BatchFailed(TerminalizeWork(tx, {"select"}, "FAILED"))
  /\ cause' = "SHORTFALL"
  /\ Goto("commit")
  /\ UNCHANGED <<now, db, saved, at, facts, sel, failed, campaigns>>

\* except CombinedDiscoveryError / Exception: rollback
CycleRaises(code) ==
  /\ tx' = db /\ saved' = db
  /\ cause' = code
  /\ Goto("materialize")
  /\ UNCHANGED <<now, db, at, facts, sel, failed, campaigns>>

SharedFault == pc \in Executing \ {"slot1", "slot2"} /\ CycleRaises("SHARED")

\* _validate_initial_handoff_preflight; its other conditions follow from the gates.
WithinCeiling(d) == Usage(d) + 2 <= INTAKE_SCHEDULER_WORK

PrepareHandoff ==
  /\ pc = "prepare"
  /\ IF WithinCeiling(tx)
     THEN /\ tx' = CreateWork(tx, HandoffWork)
          /\ saved' = tx'
          /\ Goto("slot1")
          /\ UNCHANGED <<now, db, at, facts, sel, cause, failed, campaigns>>
     ELSE CycleRaises("CEILING")

AtSlot(i) == pc = <<"slot1", "slot2">>[i]

(***************************************************************************)
(* _handoff_one_slot: the queue row, the first 15m job, the slot, and the  *)
(* handoff work that is done with it.                                      *)
(***************************************************************************)
HandoffOneSlot(i) ==
  /\ AtSlot(i) /\ Claimable(tx.queue[sel[i]], at, facts)
  /\ LET claimed == [tx EXCEPT !.queue[sel[i]] = ClaimTrackingItem(@, at),
                               !.first15m[i] = "PENDING",
                               !.slots[i] = "SELECTED"]
     IN tx' = TerminalizeWork(claimed, {Handoff[i]}, "SUCCEEDED")
  /\ Goto(<<"slot2", "commit">>[i])
  /\ UNCHANGED <<now, db, saved, at, facts, sel, cause, failed, campaigns>>

\* mutant: RELEASE without ROLLBACK TO
ActivationFails_NoRollback_Bug(code) ==
  /\ tx' = BatchFailed(TerminalizeWork(tx, HandoffWork, "FAILED"))
  /\ cause' = code
  /\ Goto("commit")
  /\ UNCHANGED <<now, db, saved, at, facts, sel, failed, campaigns>>

(***************************************************************************)
(* ROLLBACK TO SAVEPOINT, both handoffs FAILED; a code the cycle knows     *)
(* fails the batch, keeps what was discovered and returns.                 *)
(***************************************************************************)
ActivationFails(code) ==
  /\ tx' = BatchFailed(TerminalizeWork(saved, HandoffWork, "FAILED"))
  /\ cause' = code
  /\ Goto("commit")
  /\ UNCHANGED <<now, db, saved, at, facts, sel, failed, campaigns>>

\* Any other exception inside the savepoint becomes HANDOFF_DURING_SECOND.
HandoffFault == pc \in {"slot1", "slot2"} /\ ActivationFails("HANDOFF")

(***************************************************************************)
(* A token that is not claimable: COOLDOWN_REQUALIFICATION_REQUIRED is not *)
(* among the codes the cycle knows, so the whole cycle is rolled back.     *)
(***************************************************************************)
HandoffRefused(i) ==
  /\ AtSlot(i) /\ ~Claimable(tx.queue[sel[i]], at, facts)
  /\ IF HandoffAssessment(tx.queue[sel[i]], at) = "REQUALIFICATION"
     THEN CycleRaises("REQUALIFICATION")
     ELSE ActivationFails("HANDOFF")

CommitCycle ==
  /\ pc = "commit"
  /\ db' = tx
  /\ cause' = IF cause = "NONE" THEN "COMPLETED" ELSE cause
  /\ Goto("materialize")
  /\ saved' = tx
  /\ UNCHANGED <<now, tx, at, facts, sel, failed, campaigns>>

-----------------------------------------------------------------------------
(***************************************************************************)
(* OriginToLifecycleCampaignDriver.run after the executor has returned.    *)
(***************************************************************************)

\* mutant: the mirrored batch without the cancellation of the executor's jobs
Materialize_KeepsJobs_Bug ==
  /\ pc = "materialize" /\ BothSelected(db)
  /\ db' = [db EXCEPT !.mirror = TRUE]
  /\ tx' = db'
  /\ Goto("lifecycle")
  /\ UNCHANGED <<now, saved, at, facts, sel, cause, failed, campaigns>>

\* materialize_origin_activated_batch and its commit
Materialize ==
  /\ pc = "materialize" /\ BothSelected(db)
  /\ db' = [db EXCEPT !.first15m = CancelActive(@), !.mirror = TRUE]
  /\ tx' = db'
  /\ Goto("lifecycle")
  /\ UNCHANGED <<now, saved, at, facts, sel, cause, failed, campaigns>>

\* Anything it raises but an injected fault goes to the command's exception path.
MaterializeRaises ==
  /\ pc = "materialize" /\ BothSelected(db)
  /\ failed' = TRUE
  /\ Goto("returned")
  /\ UNCHANGED <<now, db, tx, saved, at, facts, sel, cause, campaigns>>

\* NO_ATOMIC_ACTIVATION; a heartbeat failure makes the run FAILED.
NoActivation ==
  /\ pc = "materialize" /\ ~BothSelected(db)
  /\ failed' \in BOOLEAN
  /\ Goto("returned")
  /\ UNCHANGED <<now, db, tx, saved, at, facts, sel, cause, campaigns>>

\* External (FactoryRun): the selective evaluation moves a slot to the first hour.
ContinueSlot(i) ==
  /\ pc = "lifecycle" /\ db.slots[i] = "SELECTED"
  /\ db' = [db EXCEPT !.slots[i] = "WINDOW_1H_CONTINUING"]
  /\ tx' = db'
  /\ UNCHANGED <<now, pc, saved, at, facts, sel, cause, failed, campaigns>>

FactoryRaises ==
  /\ pc = "lifecycle"
  /\ failed' = TRUE
  /\ Goto("returned")
  /\ UNCHANGED <<now, db, tx, saved, at, facts, sel, cause, campaigns>>

\* COOLDOWN after a main window that reached its terminal, else SKIPPED.
Disposition(rows, main) ==
  IF main THEN UpdateLast(rows, ActiveStatus, "COOLDOWN", now + Cooldown, now)
          ELSE UpdateLast(rows, ActiveStatus, "SKIPPED", None, now)

(***************************************************************************)
(* reconcile_factory_post_cycle_lifecycle, in the finally of the factory,  *)
(* for the tokens of the mirrored batch: none when the factory stopped     *)
(* before it took the batch over, which is before any evaluation.          *)
(***************************************************************************)
PostCycle ==
  /\ pc = "lifecycle"
  /\ \/ BothSelected(db) /\ UNCHANGED <<db, tx>>
     \/ \E main \in [Ordinal -> BOOLEAN] :
          /\ db' = [db EXCEPT
               !.queue = [t \in Token |->
                  IF \E i \in Ordinal : sel[i] = t
                  THEN Disposition(@[t], main[CHOOSE i \in Ordinal : sel[i] = t])
                  ELSE @[t]],
               !.first15m = CancelActive(@)]
          /\ tx' = db'
  /\ failed' \in BOOLEAN
  /\ Goto("returned")
  /\ UNCHANGED <<now, saved, at, facts, sel, cause, campaigns>>

-----------------------------------------------------------------------------
(***************************************************************************)
(* The closure.                                                            *)
(***************************************************************************)

\* cleanup_campaign_supervision, the part about discovery: one transaction.
Cleanup ==
  /\ pc = "returned"
  /\ db' = [TerminalizeWork([db EXCEPT !.jobs = CancelActive(@)], Running(db), "FAILED")
              EXCEPT !.batch = IF @ = "DISCOVERING" THEN "TERMINAL_FAILED" ELSE @,
                     !.owner = "TERMINAL"]
  /\ tx' = db'
  /\ Goto("reconcile")
  /\ UNCHANGED <<now, saved, at, facts, sel, cause, failed, campaigns>>

\* reconcile_campaign_terminal opens its connection; the first 15m jobs are of
\* none of the groups it goes through.
OpenReconciliation ==
  /\ pc = "reconcile"
  /\ tx' = ReconcileWork(db)
  /\ Goto("close1")
  /\ UNCHANGED <<now, db, saved, at, facts, sel, cause, failed, campaigns>>

AtClose(i) == pc = <<"close1", "close2">>[i]

\* mutant: the slot's transition, which commits, before the queue row
CloseSlot_SlotFirst_Bug(i) ==
  /\ AtClose(i)
  /\ LET moved == [tx EXCEPT !.slots[i] = IF @ = "SELECTED" THEN "MANUAL_REVIEW" ELSE @]
     IN /\ db' = IF tx.slots[i] = "SELECTED" THEN moved ELSE db
        /\ tx' = IF tx.slots[i] = "ABSENT" THEN tx
                 ELSE [moved EXCEPT !.queue[sel[i]] =
                         UpdateLast(@, {"QUEUED"}, "SKIPPED", None, now)]
  /\ Goto(<<"close2", "close3">>[i])
  /\ UNCHANGED <<now, saved, at, facts, sel, cause, failed, campaigns>>

(***************************************************************************)
(* Step 4a for one slot.  Its row leaves QUEUED in the open transaction,   *)
(* which the transition of a slot still SELECTED commits.                  *)
(***************************************************************************)
CloseSlot(i) ==
  /\ AtClose(i)
  /\ tx' = IF tx.slots[i] = "ABSENT" THEN tx
           ELSE [tx EXCEPT !.queue[sel[i]] = UpdateLast(@, {"QUEUED"}, "SKIPPED", None, now),
                           !.slots[i] = IF @ = "SELECTED" THEN "MANUAL_REVIEW" ELSE @]
  /\ db' = IF tx.slots[i] = "SELECTED" THEN tx' ELSE db
  /\ Goto(<<"close2", "close3">>[i])
  /\ UNCHANGED <<now, saved, at, facts, sel, cause, failed, campaigns>>

(***************************************************************************)
(* Step 5: the cycle's transition commits when it finds the state it wants *)
(* and rolls back otherwise; a FAILED campaign has the state already.      *)
(***************************************************************************)
CloseOwner ==
  /\ pc = "close3"
  /\ \/ db' = tx /\ UNCHANGED tx
     \/ ~failed /\ tx' = db /\ UNCHANGED db
  /\ Goto("closed")
  /\ UNCHANGED <<now, saved, at, facts, sel, cause, failed, campaigns>>

(***************************************************************************)
(* The process dies: what is not committed is gone.  No command takes over *)
(* a campaign that has work; one already cleaned up looks finished to the  *)
(* next preflight.                                                         *)
(***************************************************************************)
Crash ==
  /\ pc \notin AtRest
  /\ tx' = db /\ saved' = db
  /\ Goto("dead")
  /\ UNCHANGED <<now, db, at, facts, sel, cause, failed, campaigns>>

Execute ==
  \/ RunIntake \/ SelectTwo \/ Shortfall \/ SharedFault \/ PrepareHandoff
  \/ \E i \in Ordinal : HandoffOneSlot(i) \/ HandoffRefused(i)
  \/ HandoffFault \/ CommitCycle

Drive ==
  \/ Materialize \/ MaterializeRaises \/ NoActivation
  \/ \E i \in Ordinal : ContinueSlot(i)
  \/ FactoryRaises \/ PostCycle

Close ==
  \/ Cleanup \/ OpenReconciliation
  \/ \E i \in Ordinal : CloseSlot(i)
  \/ CloseOwner

Next == Tick \/ Launch \/ Execute \/ Drive \/ Close \/ Crash

Spec == Init /\ [][Next]_vars

-----------------------------------------------------------------------------
\* Properties.

Live(rows) == {n \in DOMAIN rows : rows[n].status \in LiveStatus}

(***************************************************************************)
(* Only the latest row of a token can be live: the claim appends without   *)
(* looking at older rows, and no closure looks for them either.            *)
(***************************************************************************)
OneLiveRow == \A t \in Token : Live(db.queue[t]) \subseteq {Len(db.queue[t])}

(***************************************************************************)
(* _atomic_initial_two_slot_handoff: "Commit both initial handoffs or      *)
(* neither", whatever fails and wherever the process dies: two slots of    *)
(* different tokens, each with a queue row, a job and finished work, or    *)
(* nothing but work that did not succeed.                                  *)
(***************************************************************************)
HandedOff(i) ==
  /\ db.slots[i] # "ABSENT" /\ db.first15m[i] # "ABSENT"
  /\ db.work[Handoff[i]] = "SUCCEEDED"
  /\ db.queue[sel[i]] # << >>

NotHandedOff(i) ==
  /\ db.slots[i] = "ABSENT" /\ db.first15m[i] = "ABSENT"
  /\ db.work[Handoff[i]] # "SUCCEEDED"

ActivationAtomic ==
  \/ sel # << >> /\ sel[1] # sel[2] /\ \A i \in Ordinal : HandedOff(i)
  \/ ~db.mirror /\ \A i \in Ordinal : NotHandedOff(i)

(***************************************************************************)
(* Discovery work and its job agree at every commit: no work is left open, *)
(* and its job ended the way the work did (scheduler_parity.py).           *)
(***************************************************************************)
WorkAndJobAgree == \A w \in Work : db.work[w] # "RUNNING" /\ db.jobs[w] = db.work[w]

(***************************************************************************)
(* A token picked at the gate can still be handed off at its slot, unless  *)
(* fresh evidence is missing: the handoff of the other token comes between *)
(* and both read the same instant, however late it has become.             *)
(***************************************************************************)
SelectedStayEligible ==
  \A i \in Ordinal : AtSlot(i) => HandoffEligible(tx.queue[sel[i]], at)

(***************************************************************************)
(* A campaign that was closed owns nothing: its tokens are neither queued  *)
(* nor selected, although its last transition may be rolled back.          *)
(***************************************************************************)
ClosedOwnsNothing ==
  pc = "closed" /\ sel # << >> =>
    \A i \in Ordinal :
      db.slots[i] # "SELECTED" /\ (db.slots[i] # "ABSENT" => Live(db.queue[sel[i]]) = {})

(***************************************************************************)
(* Once the factory has taken over, closing the campaign leaves nothing    *)
(* that would keep the next one from being launched.                       *)
(***************************************************************************)
MaterializedClosesQuiet == pc = "closed" /\ db.mirror => NothingActive(db)

(***************************************************************************)
(* The executor's first 15m jobs "must not linger as stale scheduler work" *)
(* (origin_lifecycle_campaign.py:281) once their campaign is closed.       *)
(***************************************************************************)
NoLingeringFirst15m == pc = "closed" => \A i \in Ordinal : db.first15m[i] # "PENDING"

(***************************************************************************)
(* They do after a materialization that raised (finding 4), and nothing    *)
(* else does: a closed campaign that the next preflight stumbles over has  *)
(* committed its handoff, was never taken over by the factory and is       *)
(* closed as FAILED; the two jobs of its two reviewed slots are all that   *)
(* is active, and discovery work, owner and the factory's own jobs are     *)
(* terminal whichever transition was rolled back.                          *)
(***************************************************************************)
OnlyFirst15mLingers ==
  pc = "closed" /\ ~NothingActive(db) =>
    /\ failed /\ cause = "COMPLETED" /\ ~db.mirror
    /\ \A i \in Ordinal : db.first15m[i] = "PENDING" /\ db.slots[i] = "MANUAL_REVIEW"
    /\ NothingActive([db EXCEPT !.first15m = CancelActive(@)])

\* What a token is, by the latest row that is committed.
Standing(rows) ==
  IF rows = << >> THEN [is |-> "free", until |-> 0]
  ELSE IF Last(rows).status \in LiveStatus THEN [is |-> "owned", until |-> 0]
  ELSE IF Last(rows).status = "COOLDOWN" /\ EffectiveCooldownExpiry(Last(rows)) # None
       THEN [is |-> "cooling", until |-> EffectiveCooldownExpiry(Last(rows))]
  ELSE [is |-> "barred", until |-> 0]

Ownership == INSTANCE TrackingOwnership WITH owner <- [t \in Token |-> Standing(db.queue[t])]

(***************************************************************************)
(* The queue implements the ownership it stands for: a token has one owner *)
(* at most, two are taken at once, a cooldown is waited for, and nothing   *)
(* a campaign skipped is ever taken again.                                 *)
(***************************************************************************)
ImplementsOwnership == Ownership!Spec
=============================================================================
