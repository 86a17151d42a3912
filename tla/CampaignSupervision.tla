------------------------ MODULE CampaignSupervision ------------------------
(***************************************************************************)
(* One operational campaign run and the four parties that write its state: *)
(*                                                                         *)
(*   main      the coordinator (_run_operational_campaign), its exception  *)
(*             path and the orphan recovery;                               *)
(*   hb        the _CampaignHeartbeat thread that renews the lease;        *)
(*   operator  cooperative-stop, from another process;                     *)
(*   crash     the process dies, thread and coordinator together.          *)
(*                                                                         *)
(* They share two stores that no transaction spans: SQLite (sup, campaign, *)
(* evidence) and the lease lock file (lock).  An action is one SQLite      *)
(* transaction or one file operation.  The campaign run row is changed in  *)
(* the same transactions, to the same states, as the campaign row, and is  *)
(* not kept apart from it.                                                 *)
(***************************************************************************)
EXTENDS Integers

CONSTANTS
  Lease,       \* LEASE_SECONDS in clock ticks; a tick is HEARTBEAT_SECONDS
  MaxTime,     \* bound on the clock
  DiskFaults,  \* TRUE: a SQLite or file operation may raise
  ClockBack    \* TRUE: the wall clock may be set back

ASSUME SupervisionConstants ==
  /\ Lease \in Nat \ {0} /\ MaxTime \in Nat
  /\ DiskFaults \in BOOLEAN /\ ClockBack \in BOOLEAN

VARIABLES
  sup,       \* the row of printer_memory_factory_campaign_supervision
  evidence,  \* is there a row in ..._campaign_heartbeat_failures?
  campaign,  \* the campaign row (and its run row)
  lock,      \* the file campaign.lease.lock
  main,      \* the coordinator
  hb,        \* the heartbeat thread
  failure,   \* _CampaignHeartbeat._failure, the in-memory signal to main
  now        \* the wall clock

vars == <<sup, evidence, campaign, lock, main, hb, failure, now>>
store == <<sup, evidence, campaign, lock>>

-----------------------------------------------------------------------------
(* Types *)

NoTime == -1
Time == Nat \cup {NoTime}

StopReason == "OPERATOR_REQUESTED_COOPERATIVE_STOP"
LeaseCause == {"LEASE_RENEWAL_SQLITE_LOCKED", "LEASE_RENEWAL_LEASE_EXPIRED",
               "LEASE_RENEWAL_UNCONFIRMED"}
PreLifecycle == "PRE_LIFECYCLE_GOVERNED_SAFE_STOP"
(* OWN_CAUSE stands for every cause the factory lifecycle gives by itself.   *)
Cause == LeaseCause \cup {StopReason, PreLifecycle, "OWN_CAUSE",
                          "OPERATIONAL_CAMPAIGN_FAILED", "ORIGINAL_FAILURE"}

Status == {"COMPLETED", "FAILED"}
Verdict == [status : Status, cause : Cause]

TerminalState == {"TERMINAL_COMPLETED", "TERMINAL_FAILED"}

NoRow == [state |-> "ABSENT", beat |-> NoTime, expiry |-> NoTime,
          stopAt |-> NoTime, status |-> "none", cause |-> "none",
          released |-> FALSE]

SupRow == [state  : {"ABSENT", "ACTIVE", "STOPPING", "TERMINAL"},
           beat   : Time,                    \* heartbeat_at
           expiry : Time,                    \* lease_expires_at
           stopAt : Time,                    \* cancellation_requested_at
           status : Status \cup {"none"},    \* terminal_status
           cause  : Cause \cup {"none"},     \* first_terminal_cause
           released : BOOLEAN]               \* lease_released_at IS NOT NULL

NoLock == [present |-> FALSE, beat |-> NoTime, expiry |-> NoTime,
           evidence |-> FALSE]

LockFile == [present : BOOLEAN, beat : Time, expiry : Time,
             evidence : BOOLEAN]             \* first_heartbeat_renewal_failure

CampaignRow ==
  [state : {"NONE", "DRAFT", "RUNNING", "STOP_REQUESTED"} \cup TerminalState,
   cause : Cause \cup {"none"}]

(* mode: "run" the coordinator's straight path, "fault" its exception path,  *)
(* "recover" recover_exact_orphan.  seen: the heartbeat failure main polled. *)
Coordinator ==
  [pc : {"preflight", "draft", "created", "locked", "acquired", "running",
         "ended", "polled", "raised", "joined", "committed", "unlinked",
         "cleaned", "reconciled", "done", "dead", "abandoned"},
   mode   : {"run", "fault", "recover"},
   status : Status,
   cause  : Cause \cup {"none"},
   seen   : LeaseCause \cup {"none"}]

Heartbeat ==
  [pc     : {"off", "wait", "read", "replaced", "exited"},
   due    : BOOLEAN,            \* HEARTBEAT_SECONDS have gone by
   beat   : Time, expiry : Time, \* what the renewal read from the row
   at     : Time]               \* its instant

Failure == [cause : LeaseCause \cup {"none"}, at : Time]

NoFailure == [cause |-> "none", at |-> NoTime]
HbOff == [pc |-> "off", due |-> FALSE, beat |-> NoTime, expiry |-> NoTime,
          at |-> NoTime]

TypeOK ==
  /\ sup \in SupRow
  /\ evidence \in BOOLEAN
  /\ campaign \in CampaignRow
  /\ lock \in LockFile
  /\ main \in Coordinator
  /\ hb \in Heartbeat
  /\ failure \in Failure
  /\ now \in Nat

Init ==
  /\ sup = NoRow
  /\ evidence = FALSE
  /\ campaign = [state |-> "NONE", cause |-> "none"]
  /\ lock = NoLock
  /\ main = [pc |-> "preflight", mode |-> "run", status |-> "COMPLETED",
             cause |-> "none", seen |-> "none"]
  /\ hb = HbOff
  /\ failure = NoFailure
  /\ now = 0

At(pc) == main.pc = pc
Goto(pc) == main' = [main EXCEPT !.pc = pc]

-----------------------------------------------------------------------------
(* Launch: the campaign rows, then acquire_campaign_supervision *)

CreateDraft ==
  /\ At("preflight")
  /\ campaign' = [campaign EXCEPT !.state = "DRAFT"]
  /\ Goto("draft")
  /\ UNCHANGED <<sup, evidence, lock, hb, failure, now>>

StartCampaign ==
  /\ At("draft")
  /\ campaign' = [campaign EXCEPT !.state = "RUNNING"]
  /\ Goto("created")
  /\ UNCHANGED <<sup, evidence, lock, hb, failure, now>>

(* The lock file comes first: whoever reads the row finds the file.          *)
WriteLock ==
  /\ At("created")
  /\ lock' = [present |-> TRUE, beat |-> now, expiry |-> now + Lease,
              evidence |-> FALSE]
  /\ Goto("locked")
  /\ UNCHANGED <<sup, evidence, campaign, hb, failure, now>>

AcquireLease ==
  /\ At("locked")
  /\ sup.state = "ABSENT" /\ campaign.state = "RUNNING"
  /\ sup' = [NoRow EXCEPT !.state = "ACTIVE", !.beat = lock.beat,
                          !.expiry = lock.expiry]
  /\ Goto("acquired")
  /\ UNCHANGED <<evidence, campaign, lock, hb, failure, now>>

StartHeartbeat ==
  /\ At("acquired")
  /\ hb' = [HbOff EXCEPT !.pc = "wait"]
  /\ Goto("running")
  /\ UNCHANGED <<store, failure, now>>

-----------------------------------------------------------------------------
(* The exception path starts wherever the straight path can raise.  A call   *)
(* that raises inside the exception path is noted and the path goes on;      *)
(* inside the recovery it ends the recovery for good.                        *)

FailTo(next) ==
  main' = CASE main.mode = "run"     -> [main EXCEPT !.pc = "raised", !.mode = "fault"]
            [] main.mode = "fault"   -> [main EXCEPT !.pc = next]
            [] main.mode = "recover" -> [main EXCEPT !.pc = "abandoned"]

(* acquire_campaign_supervision removes its own lock file when the INSERT    *)
(* fails.                                                                    *)
AcquireFails ==
  /\ DiskFaults
  /\ At("created") \/ At("locked")
  /\ lock' = NoLock
  /\ FailTo("raised")
  /\ UNCHANGED <<sup, evidence, campaign, hb, failure, now>>

(* The lifecycle, and the accounting and report after the reconciliation,    *)
(* may raise anything.                                                       *)
Raise ==
  /\ main.mode = "run"
  /\ At("acquired") \/ At("running") \/ At("reconciled")
  /\ FailTo("raised")
  /\ UNCHANGED <<store, hb, failure, now>>

-----------------------------------------------------------------------------
(* The lifecycle ends: by itself, or because cancellation_probe says so *)

Ended(status, cause) ==
  main' = [main EXCEPT !.pc = "ended", !.status = status, !.cause = cause]

LifecycleEnds(status, cause) ==
  /\ At("running")
  /\ Ended(status, cause)
  /\ UNCHANGED <<store, hb, failure, now>>

(* Variants named ..._Bug are the definition after them with one plausible    *)
(* mistake; they show that the properties notice it and are used nowhere.     *)
ProbedReason_IgnoresStop_Bug == failure.cause

ProbedReason ==
  CASE failure.cause # "none"   -> failure.cause
    [] sup.state = "STOPPING"   -> StopReason
    [] OTHER                    -> "none"

StopObserved ==
  /\ At("running")
  /\ ProbedReason # "none"
  /\ Ended("COMPLETED", ProbedReason)
  /\ UNCHANGED <<store, hb, failure, now>>

PollHeartbeat ==
  /\ At("ended")
  /\ main' = [main EXCEPT !.pc = "polled", !.seen = failure.cause]
  /\ UNCHANGED <<store, hb, failure, now>>

(* heartbeat.stop joins the thread: an in-flight renewal finishes first.     *)
(* stop_event ends a thread that waits; a renewal under way runs on.         *)
Stopped == IF hb.pc \in {"read", "replaced"} THEN hb ELSE HbOff

Joinable_NoWait_Bug == TRUE

Joinable == hb.pc \in {"off", "wait", "exited"}

(* A lease failure that was polled becomes the cause, unless the lifecycle   *)
(* already has one of its own.                                               *)
Adopted == main.seen # "none" /\ main.cause \in LeaseCause \cup {PreLifecycle}

JoinHeartbeat ==
  /\ At("polled")
  /\ Joinable
  /\ hb' = Stopped
  /\ \/ /\ main' = [main EXCEPT !.pc = "joined",
             !.status = IF Adopted THEN "FAILED" ELSE @,
             !.cause  = IF Adopted THEN main.seen ELSE @]
        /\ evidence' = (evidence \/ main.seen # "none")
     \/ /\ DiskFaults /\ main.seen # "none"  \* its evidence cannot be persisted
        /\ FailTo("joined")
        /\ UNCHANGED evidence
  /\ UNCHANGED <<sup, campaign, lock, failure, now>>

-----------------------------------------------------------------------------
(* The exception path: stop the thread, take the first cause there is *)

FirstCause(supplied) ==
  CASE campaign.cause # "none" -> campaign.cause
    [] sup.cause # "none"      -> sup.cause
    [] OTHER                   -> supplied

Supplied(seen) == IF seen # "none" THEN seen ELSE "OPERATIONAL_CAMPAIGN_FAILED"

JoinAfterFault ==
  /\ At("raised")
  /\ Joinable
  /\ LET seen == IF hb.pc = "off" THEN main.seen ELSE failure.cause
     IN /\ main' = [main EXCEPT !.pc = "joined", !.status = "FAILED",
                                !.seen = seen, !.cause = FirstCause(Supplied(seen))]
        /\ \/ evidence' = (evidence \/ seen # "none")
           \/ DiskFaults /\ UNCHANGED evidence
  /\ hb' = Stopped
  /\ UNCHANGED <<sup, campaign, lock, failure, now>>

(* A fault of the exception path itself only becomes a note.                 *)
TerminalizeFails ==
  /\ DiskFaults
  /\ At("raised")
  /\ Joinable
  /\ Goto("done")
  /\ hb' = Stopped
  /\ UNCHANGED <<store, failure, now>>

-----------------------------------------------------------------------------
(* cleanup_campaign_supervision: one transaction, then the file, then the    *)
(* release time; afterwards reconcile_campaign_terminal                      *)

Held == {"ACTIVE", "STOPPING"}

CampaignOpen == campaign.state \notin TerminalState

Target(status) ==
  IF status = "COMPLETED" THEN "TERMINAL_COMPLETED" ELSE "TERMINAL_FAILED"

Closed_KeepsStopping_Bug(row) ==
  IF row.state = "ACTIVE"
  THEN [row EXCEPT !.state = "TERMINAL", !.status = main.status, !.cause = main.cause]
  ELSE row

Closed(row) ==
  [row EXCEPT !.state = "TERMINAL", !.status = main.status, !.cause = main.cause]

CloseCampaign ==
  campaign' = [state |-> Target(main.status), cause |-> main.cause]

CleanupCommit ==
  /\ At("joined")
  /\ sup.state \in Held /\ CampaignOpen
  /\ sup' = Closed(sup)
  /\ CloseCampaign
  /\ Goto("committed")
  /\ UNCHANGED <<evidence, lock, hb, failure, now>>

CleanupReplay_Overwrites_Bug ==
  /\ At("joined")
  /\ sup.state = "TERMINAL"
  /\ sup' = [sup EXCEPT !.status = main.status]
  /\ Goto("committed")
  /\ UNCHANGED <<evidence, campaign, lock, hb, failure, now>>

(* A second cleanup keeps the first status and cause, and only releases.     *)
CleanupReplay ==
  /\ At("joined")
  /\ sup.state = "TERMINAL"
  /\ Goto("committed")
  /\ UNCHANGED <<store, hb, failure, now>>

CleanupFails_Releases_Bug ==
  /\ At("joined")
  /\ DiskFaults
  /\ FailTo("cleaned")
  /\ lock' = NoLock
  /\ UNCHANGED <<sup, evidence, campaign, hb, failure, now>>

(* No supervision row, or a campaign that is already terminal: cleanup       *)
(* raises and changes nothing.                                               *)
CleanupFails ==
  /\ At("joined")
  /\ \/ DiskFaults
     \/ sup.state = "ABSENT"
     \/ sup.state \in Held /\ ~CampaignOpen
  /\ FailTo("cleaned")
  /\ UNCHANGED <<store, hb, failure, now>>

Unlink_Early_Bug ==
  /\ At("joined") \/ At("committed")
  /\ lock' = NoLock
  /\ Goto(IF At("joined") THEN "joined" ELSE "unlinked")
  /\ UNCHANGED <<sup, evidence, campaign, hb, failure, now>>

Unlink ==
  /\ At("committed")
  /\ lock' = NoLock
  /\ Goto("unlinked")
  /\ UNCHANGED <<sup, evidence, campaign, hb, failure, now>>

Finish ==
  /\ At("unlinked")
  /\ sup' = [sup EXCEPT !.released = TRUE]
  /\ Goto("cleaned")
  /\ UNCHANGED <<evidence, campaign, lock, hb, failure, now>>

ReleaseFails ==
  /\ DiskFaults
  /\ At("committed") \/ At("unlinked")
  /\ FailTo("cleaned")
  /\ UNCHANGED <<store, hb, failure, now>>

Reconcile_Rewrites_Bug ==
  /\ At("cleaned")
  /\ CloseCampaign
  /\ Goto("reconciled")
  /\ UNCHANGED <<sup, evidence, lock, hb, failure, now>>

(* A terminal campaign keeps its state and first cause (transition_state).   *)
Reconcile ==
  /\ At("cleaned")
  /\ IF CampaignOpen THEN CloseCampaign ELSE UNCHANGED campaign
  /\ Goto("reconciled")
  /\ UNCHANGED <<sup, evidence, lock, hb, failure, now>>

ReconcileFails ==
  /\ DiskFaults
  /\ At("cleaned")
  /\ FailTo("reconciled")
  /\ UNCHANGED <<store, hb, failure, now>>

Report ==
  /\ At("reconciled")
  /\ Goto("done")
  /\ UNCHANGED <<store, hb, failure, now>>

-----------------------------------------------------------------------------
(* renew_campaign_lease, run by the heartbeat thread *)

(* stop_event is set by heartbeat.stop, that is, by the two joins.           *)
StopEventClear == main.pc \in {"running", "ended", "polled", "raised"}

Exited(cause, at) ==
  /\ failure' = [cause |-> cause, at |-> at]
  /\ hb' = [HbOff EXCEPT !.pc = "exited"]

(* A renewal that fails after the row was read leaves evidence in SQLite or, *)
(* when SQLite refuses, in the lock file.  If neither works the thread sees  *)
(* an exception, and then there is no durable evidence at all.               *)
RenewalFails(cause, at) ==
  \/ /\ Exited(cause, at)
     /\ evidence' = TRUE
     /\ UNCHANGED lock
  \/ /\ DiskFaults /\ lock.present
     /\ Exited(cause, at)
     /\ lock' = [lock EXCEPT !.evidence = TRUE]
     /\ UNCHANGED evidence
  \/ /\ DiskFaults
     /\ Exited("LEASE_RENEWAL_UNCONFIRMED", now)
     /\ UNCHANGED <<evidence, lock>>

Due == hb.pc = "wait" /\ hb.due /\ StopEventClear

(* A row that is not ACTIVE (or cannot be read) raises out of the renewal.   *)
HbRefused ==
  /\ Due
  /\ sup.state # "ACTIVE" \/ DiskFaults
  /\ Exited("LEASE_RENEWAL_UNCONFIRMED", now)
  /\ UNCHANGED <<store, main, now>>

Expired == sup.expiry <= now

Monotonic_Bug == TRUE

Monotonic == now > sup.beat /\ now + Lease > sup.expiry

HbRead ==
  /\ Due
  /\ sup.state = "ACTIVE"
  /\ IF ~Expired /\ Monotonic /\ lock.present
     THEN /\ hb' = [hb EXCEPT !.pc = "read", !.beat = sup.beat,
                              !.expiry = sup.expiry, !.at = now]
          /\ UNCHANGED <<evidence, lock, failure>>
     ELSE RenewalFails(IF Expired THEN "LEASE_RENEWAL_LEASE_EXPIRED"
                                  ELSE "LEASE_RENEWAL_UNCONFIRMED", now)
  /\ UNCHANGED <<sup, campaign, main, now>>

Renewed_KeepsExpiry_Bug(beat) == [lock EXCEPT !.present = TRUE, !.beat = beat]

Renewed(beat) == [lock EXCEPT !.present = TRUE, !.beat = beat, !.expiry = beat + Lease]

HbReplace ==
  /\ hb.pc = "read"
  /\ \/ /\ lock' = Renewed(hb.at)
        /\ hb' = [hb EXCEPT !.pc = "replaced"]
        /\ UNCHANGED <<evidence, failure>>
     \/ DiskFaults /\ RenewalFails("LEASE_RENEWAL_UNCONFIRMED", hb.at)
  /\ UNCHANGED <<sup, campaign, main, now>>

LedgerUnchanged == sup.state = "ACTIVE" /\ sup.beat = hb.beat /\ sup.expiry = hb.expiry

HbCommit ==
  /\ hb.pc = "replaced"
  /\ \/ /\ LedgerUnchanged
        /\ sup' = [sup EXCEPT !.beat = hb.at, !.expiry = hb.at + Lease]
        /\ hb' = [HbOff EXCEPT !.pc = "wait"]
        /\ UNCHANGED <<evidence, lock, failure>>
     \/ /\ ~LedgerUnchanged
        /\ RenewalFails("LEASE_RENEWAL_UNCONFIRMED", hb.at)
        /\ UNCHANGED sup
     \/ /\ DiskFaults
        /\ RenewalFails("LEASE_RENEWAL_SQLITE_LOCKED", hb.at)
        /\ UNCHANGED sup
  /\ UNCHANGED <<campaign, main, now>>

-----------------------------------------------------------------------------
(* The operator, the clock, crashes and the recovery of an orphan *)

RequestStop ==
  /\ sup.state = "ACTIVE"
  /\ sup' = [sup EXCEPT !.state = "STOPPING", !.stopAt = now]
  /\ campaign' = [campaign EXCEPT !.state =
       IF campaign.state = "RUNNING" THEN "STOP_REQUESTED" ELSE campaign.state]
  /\ UNCHANGED <<evidence, lock, main, hb, failure, now>>

ClockMoves ==
  /\ \/ now < MaxTime /\ now' = now + 1
     \/ ClockBack /\ now > 0 /\ now' = now - 1
  /\ hb' = [hb EXCEPT !.due = (hb.pc = "wait")]
  /\ UNCHANGED <<store, main, failure>>

Crash ==
  /\ main.pc \notin {"done", "dead", "abandoned"}
  /\ Goto("dead")
  /\ hb' = HbOff
  /\ failure' = NoFailure
  /\ UNCHANGED <<store, now>>

RecoverOrphan ==
  /\ At("dead") /\ main.mode # "recover"
  /\ campaign.state = "STOP_REQUESTED" /\ sup.state = "STOPPING"
  /\ lock.present /\ sup.expiry <= now /\ lock.expiry <= now
  /\ main' = [pc |-> "joined", mode |-> "recover", status |-> "FAILED",
              cause |-> "ORIGINAL_FAILURE", seen |-> "none"]
  /\ UNCHANGED <<store, hb, failure, now>>

-----------------------------------------------------------------------------

Lifecycle ==
  \/ \E s \in Status, c \in {"OWN_CAUSE", PreLifecycle} : LifecycleEnds(s, c)
  \/ Raise

Coordinate ==
  \/ CreateDraft \/ StartCampaign \/ WriteLock \/ AcquireLease \/ AcquireFails
  \/ StartHeartbeat \/ StopObserved \/ PollHeartbeat \/ JoinHeartbeat
  \/ JoinAfterFault \/ TerminalizeFails
  \/ CleanupCommit \/ CleanupReplay \/ CleanupFails
  \/ Unlink \/ Finish \/ ReleaseFails
  \/ Reconcile \/ ReconcileFails \/ Report

Renew == HbRefused \/ HbRead \/ HbReplace \/ HbCommit

Next == Lifecycle \/ Coordinate \/ Renew \/ RequestStop \/ ClockMoves \/ Crash \/ RecoverOrphan

Spec == Init /\ [][Next]_vars

(* The interpreter runs both threads, and the factory loop polls the probe.  *)
(* Nothing forces the lifecycle to end by itself, the operator to stop it,   *)
(* the clock to move or the process to die.                                  *)
FairSpec == Spec /\ WF_vars(Coordinate) /\ WF_vars(Renew)

-----------------------------------------------------------------------------
(* Properties *)

(* As long as SQLite says the lease is held, its file exists: at no point of *)
(* acquisition, renewal, cleanup, fault or recovery is the row ACTIVE or     *)
(* STOPPING without the lock file that cleanup and recovery must find.       *)
LeaseHeldWhileActive == sup.state \in Held => lock.present

(* A renewal counts only when file and ledger both have it: the ledger never *)
(* promises a later expiry than the file that other processes look at.       *)
LedgerNeverAhead ==
  sup.state \in Held => sup.beat <= lock.beat /\ sup.expiry <= lock.expiry

(* lease_released_at is the last thing written: the verdict is durable, the  *)
(* file is gone, and no renewal still in flight brings it back.              *)
NoLockAfterRelease == sup.released => sup.state = "TERMINAL" /\ ~lock.present

(* The supervision row and the campaign give one verdict, whichever of the   *)
(* coordinator, its exception path or the recovery closed them.              *)
VerdictAgrees ==
  sup.state = "TERMINAL" =>
    campaign.state = Target(sup.status) /\ campaign.cause = sup.cause

(* The heartbeat and the expiry of a held lease move forward only, also when *)
(* the wall clock is set back between two renewals.                          *)
LeaseAdvances ==
  [][sup.state \in Held /\ sup'.state \in Held
       => /\ sup'.beat >= sup.beat /\ sup'.expiry >= sup.expiry
          /\ lock'.beat >= lock.beat /\ lock'.expiry >= lock.expiry]_vars

(* The first terminal cause is final, in both rows, through repeated         *)
(* cleanups, later faults, reconciliation, crashes and recovery.             *)
FirstCauseImmutable ==
  [][/\ campaign.state \in TerminalState => campaign' = campaign
     /\ sup.state = "TERMINAL" =>
          /\ sup'.state = "TERMINAL"
          /\ sup'.status = sup.status /\ sup'.cause = sup.cause]_vars

(* However the command ends without a disk fault, nothing it owned still     *)
(* counts as active, so the next launch is not refused by preflight.         *)
QuietAtEnd ==
  At("done") => /\ sup.state \notin Held
                /\ ~CampaignOpen
                /\ ~lock.present

(* A stop request is honoured: the run is closed and its lease released,     *)
(* unless the process dies first.                                            *)
StopIsHonoured ==
  sup.state = "STOPPING" ~> (sup.state = "TERMINAL" /\ sup.released) \/ At("dead")

ModeRank(mode) ==
  CASE mode = "run" -> 0 [] mode = "fault" -> 1 [] mode = "recover" -> 2

PcRank(pc) ==
  CASE pc = "preflight" -> 0 [] pc = "draft" -> 1 [] pc = "created" -> 2
    [] pc = "locked" -> 3 [] pc = "acquired" -> 4 [] pc = "running" -> 5
    [] pc = "ended" -> 6 [] pc = "polled" -> 7 [] pc = "raised" -> 8
    [] pc = "joined" -> 9 [] pc = "committed" -> 10 [] pc = "unlinked" -> 11
    [] pc = "cleaned" -> 12 [] pc = "reconciled" -> 13
    [] pc \in {"done", "dead", "abandoned"} -> 14

(* The coordinator of a command goes forward only: along its straight path,  *)
(* over to the exception path at most once, and after a crash through one    *)
(* recovery.  So it comes to an end after a bounded number of steps, however *)
(* often the lease is renewed beside it.                                     *)
CoordinatorAdvances ==
  [][\/ UNCHANGED main
     \/ ModeRank(main'.mode) > ModeRank(main.mode)
     \/ main'.mode = main.mode /\ PcRank(main'.pc) > PcRank(main.pc)]_vars

(* Supervision implements the promise of LeaseLifecycle.                     *)
Promise == INSTANCE LeaseLifecycle WITH
  phase <- CASE sup.state = "ABSENT"   -> "none"
             [] sup.state = "ACTIVE"   -> "held"
             [] sup.state = "STOPPING" -> "stopping"
             [] sup.state = "TERMINAL" -> IF lock.present THEN "closed" ELSE "released",
  verdict <- IF sup.state = "TERMINAL"
             THEN [status |-> sup.status, cause |-> sup.cause] ELSE "open"

LeasePromise == Promise!Spec

(* The evidence of a failed renewal that had to go to the lock file is in    *)
(* SQLite before the file is removed and success can be reported.            *)
EvidenceCopiedBeforeRelease ==
  [][lock.evidence /\ ~lock'.present /\ sup.status = "COMPLETED"
       => evidence]_vars

(* It is not always (finding 1), but no more is lost than a renewal that     *)
(* failed after the coordinator's last poll: a heartbeat failure that the    *)
(* coordinator has seen is durable before its run is COMPLETED, and stays    *)
(* so through disk faults, repeated cleanups, crashes and recovery.          *)
SeenIsDurable ==
  sup.status = "COMPLETED" /\ main.seen # "none" => evidence
=============================================================================
