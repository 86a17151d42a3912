--------------------- MODULE CampaignSupervisionProofs ---------------------
(***************************************************************************)
(* Theorems about CampaignSupervision, for every lease length, with disk   *)
(* faults, crashes, a clock that is set back, and without any bound on the *)
(* clock (MaxTime is any natural number).                                  *)
(***************************************************************************)
EXTENDS CampaignSupervision, TLAPS

Launching == {"preflight", "draft", "created", "locked"}
Supervised == {"acquired", "running", "ended", "polled"}

-----------------------------------------------------------------------------
(* The inductive invariant *)

(* Where the coordinator is tells what the row, the file and the thread are. *)
PlaceInv ==
  /\ main.pc \in Launching => sup.state = "ABSENT"
  /\ main.pc \in {"preflight", "draft"} => CampaignOpen
  /\ main.pc \in Supervised => sup.state \in Held
  /\ main.pc \in {"committed", "unlinked"} => sup.state = "TERMINAL"
  /\ main.pc \in {"ended", "polled", "joined"} => main.cause # "none"
  /\ hb.pc # "off" => StopEventClear /\ sup.state \in Held

(* A held lease: the file is there, and is as far as the ledger or one       *)
(* unconfirmed renewal ahead.                                                *)
LeaseInv ==
  /\ main.pc = "locked" => /\ lock.present /\ lock.beat \in Nat
                           /\ lock.expiry = lock.beat + Lease
  /\ sup.state \in Held =>
       /\ lock.present /\ sup.beat \in Nat /\ lock.beat \in Nat
       /\ sup.expiry = sup.beat + Lease /\ lock.expiry = lock.beat + Lease
       /\ sup.beat <= lock.beat
  /\ main.pc = "acquired" \/ hb.pc = "wait" => lock.beat = sup.beat
  /\ hb.pc \in {"read", "replaced"} =>
       /\ hb.beat = sup.beat /\ hb.at \in Nat /\ hb.at > sup.beat
       /\ lock.beat = IF hb.pc = "read" THEN sup.beat ELSE hb.at

(* The verdict and the release.                                              *)
VerdictInv ==
  /\ sup.state # "TERMINAL" => sup.cause = "none" /\ ~sup.released
  /\ sup.state = "TERMINAL" => /\ sup.status \in Status /\ sup.cause \in Cause
                               /\ campaign.state = Target(sup.status)
                               /\ campaign.cause = sup.cause
  /\ main.pc = "unlinked" => ~lock.present
  /\ sup.released => ~lock.present

SupervisionInv == TypeOK /\ PlaceInv /\ LeaseInv /\ VerdictInv

-----------------------------------------------------------------------------
(* Types *)

(* The initial state has the types of the columns, file fields and threads.  *)
LEMMA InitTypes == Init => TypeOK
<1> SUFFICES ASSUME Init PROVE TypeOK
  OBVIOUS
<1>1. sup \in SupRow
  BY DEF Init, NoRow, SupRow, Time, NoTime
<1>2. lock \in LockFile
  BY DEF Init, NoLock, LockFile, Time, NoTime
<1>3. main \in Coordinator
  BY DEF Init, Coordinator, Status
<1>4. hb \in Heartbeat
  BY DEF Init, HbOff, Heartbeat, Time, NoTime
<1>5. campaign \in CampaignRow /\ failure \in Failure
  BY DEF Init, NoFailure, CampaignRow, Failure, Time, NoTime
<1> QED BY <1>1, <1>2, <1>3, <1>4, <1>5 DEF Init, TypeOK


(* Every step keeps them.                                                    *)
LEMMA StepTypes == TypeOK /\ [Next]_vars => TypeOK'
<1> SUFFICES ASSUME TypeOK, [Next]_vars PROVE TypeOK'
  OBVIOUS
<1> USE SupervisionConstants
<1>1. CASE CreateDraft
  <2>1. campaign' \in CampaignRow
    BY <1>1 DEF TypeOK, CreateDraft, At, Goto, CampaignRow, TerminalState,
         Cause, LeaseCause, StopReason, PreLifecycle
  <2>2. main' \in Coordinator
    BY <1>1 DEF TypeOK, CreateDraft, At, Goto, Coordinator, Status, Cause,
         LeaseCause, StopReason, PreLifecycle
  <2> QED BY <1>1, <2>1, <2>2 DEF TypeOK, CreateDraft, store
<1>2. CASE StartCampaign
  <2>1. campaign' \in CampaignRow
    BY <1>2 DEF TypeOK, StartCampaign, At, Goto, CampaignRow, TerminalState,
         Cause, LeaseCause, StopReason, PreLifecycle
  <2>2. main' \in Coordinator
    BY <1>2 DEF TypeOK, StartCampaign, At, Goto, Coordinator, Status, Cause,
         LeaseCause, StopReason, PreLifecycle
  <2> QED BY <1>2, <2>1, <2>2 DEF TypeOK, StartCampaign, store
<1>3. CASE WriteLock
  <2>1. lock' \in LockFile
    BY <1>3 DEF TypeOK, WriteLock, At, Goto, LockFile, Time, NoTime
  <2>2. main' \in Coordinator
    BY <1>3 DEF TypeOK, WriteLock, At, Goto, Coordinator, Status, Cause,
         LeaseCause, StopReason, PreLifecycle
  <2> QED BY <1>3, <2>1, <2>2 DEF TypeOK, WriteLock, store
<1>4. CASE AcquireLease
  <2>1. sup' \in SupRow
    BY <1>4 DEF TypeOK, AcquireLease, NoRow, At, Goto, SupRow, Time, NoTime,
         Status, Cause, LeaseCause, StopReason, PreLifecycle, LockFile
  <2>2. main' \in Coordinator
    BY <1>4 DEF TypeOK, AcquireLease, NoRow, At, Goto, Coordinator, Status,
         Cause, LeaseCause, StopReason, PreLifecycle
  <2> QED BY <1>4, <2>1, <2>2 DEF TypeOK, AcquireLease, store
<1>5. CASE AcquireFails
  <2>1. lock' \in LockFile
    BY <1>5 DEF TypeOK, AcquireFails, FailTo, NoLock, At, Goto, LockFile,
         Time, NoTime
  <2>2. main' \in Coordinator
    BY <1>5 DEF TypeOK, AcquireFails, FailTo, NoLock, At, Goto, Coordinator,
         Status, Cause, LeaseCause, StopReason, PreLifecycle
  <2> QED BY <1>5, <2>1, <2>2 DEF TypeOK, AcquireFails, store
<1>6. CASE StartHeartbeat
  <2>1. hb' \in Heartbeat
    BY <1>6 DEF TypeOK, StartHeartbeat, HbOff, At, Goto, Heartbeat, Time,
         NoTime
  <2>2. main' \in Coordinator
    BY <1>6 DEF TypeOK, StartHeartbeat, HbOff, At, Goto, Coordinator, Status,
         Cause, LeaseCause, StopReason, PreLifecycle
  <2> QED BY <1>6, <2>1, <2>2 DEF TypeOK, StartHeartbeat, store
<1>7. CASE Raise
  <2>1. main' \in Coordinator
    BY <1>7 DEF TypeOK, Raise, FailTo, At, Goto, Coordinator, Status, Cause,
         LeaseCause, StopReason, PreLifecycle
  <2> QED BY <1>7, <2>1 DEF TypeOK, Raise, store
<1>8. CASE \E s \in Status, c \in {"OWN_CAUSE", PreLifecycle} : LifecycleEnds(s, c)
  <2>0. PICK s \in Status, c \in {"OWN_CAUSE", PreLifecycle} : LifecycleEnds(s, c)
    BY <1>8
  <2>1. main' \in Coordinator
    BY <2>0 DEF TypeOK, LifecycleEnds, Ended, At, Goto, Coordinator, Status,
         Cause, LeaseCause, StopReason, PreLifecycle
  <2> QED BY <2>0, <2>1 DEF TypeOK, LifecycleEnds, store
<1>9. CASE StopObserved
  <2>1. main' \in Coordinator
    <3>1. ProbedReason \in Cause
      BY <1>9 DEF StopObserved, ProbedReason, TypeOK, Failure, Cause
    <3> HIDE DEF ProbedReason
    <3> QED BY <1>9, <3>1 DEF StopObserved, Ended, TypeOK, Coordinator, Status
  <2> QED BY <1>9, <2>1 DEF TypeOK, StopObserved, store
<1>10. CASE PollHeartbeat
  <2>1. main' \in Coordinator
    BY <1>10 DEF TypeOK, PollHeartbeat, At, Goto, Coordinator, Status, Cause,
         LeaseCause, StopReason, PreLifecycle, Failure
  <2> QED BY <1>10, <2>1 DEF TypeOK, PollHeartbeat, store
<1>11. CASE JoinHeartbeat
  <2>1. main' \in Coordinator
    <3>1. CASE FailTo("joined")
      BY <3>1 DEF FailTo, TypeOK, Coordinator
    <3>2. CASE main' = [main EXCEPT !.pc = "joined",
                 !.status = IF Adopted THEN "FAILED" ELSE @,
                 !.cause  = IF Adopted THEN main.seen ELSE @]
      <4>1. (IF Adopted THEN "FAILED" ELSE main.status) \in Status
        BY DEF TypeOK, Coordinator, Status
      <4>2. (IF Adopted THEN main.seen ELSE main.cause) \in Cause \cup {"none"}
        BY DEF TypeOK, Coordinator, Cause
      <4> HIDE DEF Adopted
      <4> QED BY <3>2, <4>1, <4>2 DEF TypeOK, Coordinator
    <3> QED BY <1>11, <3>1, <3>2 DEF JoinHeartbeat
  <2>2. hb' \in Heartbeat
    BY <1>11 DEF TypeOK, JoinHeartbeat, FailTo, Adopted, Joinable, Stopped,
         HbOff, At, Goto, Heartbeat, Time, NoTime
  <2>3. evidence' \in BOOLEAN
    BY <1>11 DEF TypeOK, JoinHeartbeat, FailTo, Adopted, Joinable, Stopped,
         HbOff, At, Goto
  <2> QED BY <1>11, <2>1, <2>2, <2>3 DEF TypeOK, JoinHeartbeat, store
<1>12. CASE JoinAfterFault
  <2>1. main' \in Coordinator
    <3>1. PICK seen \in LeaseCause \cup {"none"} :
            main' = [main EXCEPT !.pc = "joined", !.status = "FAILED",
                                 !.seen = seen, !.cause = FirstCause(Supplied(seen))]
      BY <1>12 DEF JoinAfterFault, TypeOK, Coordinator, Failure
    <3>2. Supplied(seen) \in Cause
      BY DEF Supplied, Cause
    <3>3. FirstCause(Supplied(seen)) \in Cause \cup {"none"}
      BY <3>2 DEF FirstCause, TypeOK, CampaignRow, SupRow
    <3> HIDE DEF FirstCause, Supplied
    <3> QED BY <3>1, <3>3 DEF TypeOK, Coordinator, Status
<2>2. hb' \in Heartbeat
    BY <1>12 DEF TypeOK, JoinAfterFault, FirstCause, Supplied, Joinable,
         Stopped, HbOff, At, Goto, Heartbeat, Time, NoTime
  <2>3. evidence' \in BOOLEAN
    BY <1>12 DEF TypeOK, JoinAfterFault, FirstCause, Supplied, Joinable,
         Stopped, HbOff, At, Goto
  <2> QED BY <1>12, <2>1, <2>2, <2>3 DEF TypeOK, JoinAfterFault, store
<1>13. CASE TerminalizeFails
  <2>1. main' \in Coordinator
    BY <1>13 DEF TypeOK, TerminalizeFails, Joinable, Stopped, HbOff, At, Goto,
         Coordinator, Status, Cause, LeaseCause, StopReason, PreLifecycle
  <2>2. hb' \in Heartbeat
    BY <1>13 DEF TypeOK, TerminalizeFails, Joinable, Stopped, HbOff, At, Goto,
         Heartbeat, Time, NoTime
  <2> QED BY <1>13, <2>1, <2>2 DEF TypeOK, TerminalizeFails, store
<1>14. CASE CleanupCommit
  <2>1. sup' \in SupRow
    BY <1>14 DEF TypeOK, CleanupCommit, Closed, CloseCampaign, Target,
         CampaignOpen, At, Goto, SupRow, Time, NoTime, Status, Cause,
         LeaseCause, StopReason, PreLifecycle, Coordinator
  <2>2. campaign' \in CampaignRow
    BY <1>14 DEF TypeOK, CleanupCommit, Closed, CloseCampaign, Target,
         CampaignOpen, At, Goto, CampaignRow, TerminalState, Cause,
         LeaseCause, StopReason, PreLifecycle, Coordinator
  <2>3. main' \in Coordinator
    BY <1>14 DEF TypeOK, CleanupCommit, Closed, CloseCampaign, Target,
         CampaignOpen, At, Goto, Coordinator, Status, Cause, LeaseCause,
         StopReason, PreLifecycle
  <2> QED BY <1>14, <2>1, <2>2, <2>3 DEF TypeOK, CleanupCommit, store
<1>15. CASE CleanupReplay
  <2>1. main' \in Coordinator
    BY <1>15 DEF TypeOK, CleanupReplay, At, Goto, Coordinator, Status, Cause,
         LeaseCause, StopReason, PreLifecycle
  <2> QED BY <1>15, <2>1 DEF TypeOK, CleanupReplay, store
<1>16. CASE CleanupFails
  <2>1. main' \in Coordinator
    BY <1>16 DEF TypeOK, CleanupFails, FailTo, At, Goto, Coordinator, Status,
         Cause, LeaseCause, StopReason, PreLifecycle
  <2> QED BY <1>16, <2>1 DEF TypeOK, CleanupFails, store
<1>17. CASE Unlink
  <2>1. lock' \in LockFile
    BY <1>17 DEF TypeOK, Unlink, NoLock, At, Goto, LockFile, Time, NoTime
  <2>2. main' \in Coordinator
    BY <1>17 DEF TypeOK, Unlink, NoLock, At, Goto, Coordinator, Status, Cause,
         LeaseCause, StopReason, PreLifecycle
  <2> QED BY <1>17, <2>1, <2>2 DEF TypeOK, Unlink, store
<1>18. CASE Finish
  <2>1. sup' \in SupRow
    BY <1>18 DEF TypeOK, Finish, At, Goto, SupRow, Time, NoTime, Status,
         Cause, LeaseCause, StopReason, PreLifecycle
  <2>2. main' \in Coordinator
    BY <1>18 DEF TypeOK, Finish, At, Goto, Coordinator, Status, Cause,
         LeaseCause, StopReason, PreLifecycle
  <2> QED BY <1>18, <2>1, <2>2 DEF TypeOK, Finish, store
<1>19. CASE ReleaseFails
  <2>1. main' \in Coordinator
    BY <1>19 DEF TypeOK, ReleaseFails, FailTo, At, Goto, Coordinator, Status,
         Cause, LeaseCause, StopReason, PreLifecycle
  <2> QED BY <1>19, <2>1 DEF TypeOK, ReleaseFails, store
<1>20. CASE Reconcile
  <2>1. campaign' \in CampaignRow
    BY <1>20 DEF TypeOK, Reconcile, CloseCampaign, CampaignOpen, Target, At,
         Goto, CampaignRow, TerminalState, Cause, LeaseCause, StopReason,
         PreLifecycle, Coordinator
  <2>2. main' \in Coordinator
    BY <1>20 DEF TypeOK, Reconcile, CloseCampaign, CampaignOpen, Target, At,
         Goto, Coordinator, Status, Cause, LeaseCause, StopReason,
         PreLifecycle
  <2> QED BY <1>20, <2>1, <2>2 DEF TypeOK, Reconcile, store
<1>21. CASE ReconcileFails
  <2>1. main' \in Coordinator
    BY <1>21 DEF TypeOK, ReconcileFails, FailTo, At, Goto, Coordinator,
         Status, Cause, LeaseCause, StopReason, PreLifecycle
  <2> QED BY <1>21, <2>1 DEF TypeOK, ReconcileFails, store
<1>22. CASE Report
  <2>1. main' \in Coordinator
    BY <1>22 DEF TypeOK, Report, At, Goto, Coordinator, Status, Cause,
         LeaseCause, StopReason, PreLifecycle
  <2> QED BY <1>22, <2>1 DEF TypeOK, Report, store
<1>23. CASE HbRefused
  <2>1. hb' \in Heartbeat
    BY <1>23 DEF TypeOK, HbRefused, Due, Exited, HbOff, At, Goto, Heartbeat,
         Time, NoTime
  <2>2. failure' \in Failure
    BY <1>23 DEF TypeOK, HbRefused, Due, Exited, HbOff, At, Goto, Failure,
         LeaseCause, Time, NoTime
  <2> QED BY <1>23, <2>1, <2>2 DEF TypeOK, HbRefused, store
<1>24. CASE HbRead
  <2>1. hb' \in Heartbeat
    <3>1. CASE hb' = [hb EXCEPT !.pc = "read", !.beat = sup.beat,
                               !.expiry = sup.expiry, !.at = now]
      BY <3>1 DEF TypeOK, Heartbeat, SupRow, Time
    <3>2. CASE hb' = [HbOff EXCEPT !.pc = "exited"]
      BY <3>2 DEF HbOff, Heartbeat, Time, NoTime
    <3> QED BY <1>24, <3>1, <3>2 DEF HbRead, RenewalFails, Exited
  <2>2. failure' \in Failure
    BY <1>24 DEF TypeOK, HbRead, Due, Exited, HbOff, RenewalFails, Expired,
         Monotonic, At, Goto, Failure, LeaseCause, Time, NoTime
  <2>3. lock' \in LockFile
    BY <1>24 DEF TypeOK, HbRead, Due, Exited, HbOff, RenewalFails, Expired,
         Monotonic, At, Goto, LockFile, Time, NoTime
  <2>4. evidence' \in BOOLEAN
    BY <1>24 DEF TypeOK, HbRead, Due, Exited, HbOff, RenewalFails, Expired,
         Monotonic, At, Goto
  <2> QED BY <1>24, <2>1, <2>2, <2>3, <2>4 DEF TypeOK, HbRead, store
<1>25. CASE HbReplace
  <2>1. hb' \in Heartbeat
    BY <1>25 DEF TypeOK, HbReplace, Exited, HbOff, RenewalFails, Renewed, At,
         Goto, Heartbeat, Time, NoTime
  <2>2. failure' \in Failure
    BY <1>25 DEF TypeOK, HbReplace, Exited, HbOff, RenewalFails, Renewed, At,
         Goto, Failure, LeaseCause, Time, NoTime, Heartbeat
  <2>3. lock' \in LockFile
    <3>1. hb.at \in Time /\ hb.at + Lease \in Nat
      BY DEF TypeOK, Heartbeat, Time, NoTime
    <3>2. CASE lock' = Renewed(hb.at)
      BY <3>1, <3>2 DEF TypeOK, Renewed, LockFile, Time
    <3>3. CASE RenewalFails("LEASE_RENEWAL_UNCONFIRMED", hb.at)
      BY <3>3 DEF TypeOK, RenewalFails, LockFile
    <3> QED BY <1>25, <3>2, <3>3 DEF HbReplace
  <2>4. evidence' \in BOOLEAN
    BY <1>25 DEF TypeOK, HbReplace, Exited, HbOff, RenewalFails, Renewed, At,
         Goto
  <2> QED BY <1>25, <2>1, <2>2, <2>3, <2>4 DEF TypeOK, HbReplace, store
<1>26. CASE HbCommit
  <2>1. sup' \in SupRow
    <3>1. hb.at \in Time /\ hb.at + Lease \in Nat
      BY DEF TypeOK, Heartbeat, Time, NoTime
    <3>2. CASE sup' = [sup EXCEPT !.beat = hb.at, !.expiry = hb.at + Lease]
      BY <3>1, <3>2 DEF TypeOK, SupRow, Time
    <3>3. CASE UNCHANGED sup
      BY <3>3 DEF TypeOK
    <3> QED BY <1>26, <3>2, <3>3 DEF HbCommit
  <2>2. hb' \in Heartbeat
    BY <1>26 DEF TypeOK, HbCommit, Exited, HbOff, RenewalFails,
         LedgerUnchanged, At, Goto, Heartbeat, Time, NoTime
  <2>3. failure' \in Failure
    BY <1>26 DEF TypeOK, HbCommit, Exited, HbOff, RenewalFails,
         LedgerUnchanged, At, Goto, Failure, LeaseCause, Time, NoTime,
         Heartbeat
  <2>4. lock' \in LockFile
    BY <1>26 DEF TypeOK, HbCommit, Exited, HbOff, RenewalFails,
         LedgerUnchanged, At, Goto, LockFile, Time, NoTime
  <2>5. evidence' \in BOOLEAN
    BY <1>26 DEF TypeOK, HbCommit, Exited, HbOff, RenewalFails,
         LedgerUnchanged, At, Goto
  <2> QED BY <1>26, <2>1, <2>2, <2>3, <2>4, <2>5 DEF TypeOK, HbCommit, store
<1>27. CASE RequestStop
  <2>1. sup' \in SupRow
    BY <1>27 DEF TypeOK, RequestStop, At, Goto, SupRow, Time, NoTime, Status,
         Cause, LeaseCause, StopReason, PreLifecycle
  <2>2. campaign' \in CampaignRow
    BY <1>27 DEF TypeOK, RequestStop, At, Goto, CampaignRow, TerminalState,
         Cause, LeaseCause, StopReason, PreLifecycle
  <2> QED BY <1>27, <2>1, <2>2 DEF TypeOK, RequestStop, store
<1>28. CASE ClockMoves
  <2>1. hb' \in Heartbeat
    BY <1>28 DEF TypeOK, ClockMoves, At, Goto, Heartbeat, Time, NoTime
  <2>2. now' \in Nat
    BY <1>28 DEF TypeOK, ClockMoves
  <2> QED BY <1>28, <2>1, <2>2 DEF TypeOK, ClockMoves, store
<1>29. CASE Crash
  <2>1. main' \in Coordinator
    BY <1>29 DEF TypeOK, Crash, HbOff, NoFailure, At, Goto, Coordinator,
         Status, Cause, LeaseCause, StopReason, PreLifecycle
  <2>2. hb' \in Heartbeat
    BY <1>29 DEF TypeOK, Crash, HbOff, NoFailure, At, Goto, Heartbeat, Time,
         NoTime
  <2>3. failure' \in Failure
    BY <1>29 DEF TypeOK, Crash, HbOff, NoFailure, At, Goto, Failure,
         LeaseCause, Time, NoTime
  <2> QED BY <1>29, <2>1, <2>2, <2>3 DEF TypeOK, Crash, store
<1>30. CASE RecoverOrphan
  <2>1. main' \in Coordinator
    BY <1>30 DEF TypeOK, RecoverOrphan, At, Goto, Coordinator, Status, Cause,
         LeaseCause, StopReason, PreLifecycle
  <2> QED BY <1>30, <2>1 DEF TypeOK, RecoverOrphan, store
<1>31. CASE UNCHANGED vars
  BY <1>31 DEF TypeOK, vars
<1> QED BY <1>1, <1>2, <1>3, <1>4, <1>5, <1>6, <1>7, <1>8, <1>9, <1>10, <1>11,
     <1>12, <1>13, <1>14, <1>15, <1>16, <1>17, <1>18, <1>19, <1>20, <1>21,
     <1>22, <1>23, <1>24, <1>25, <1>26, <1>27, <1>28, <1>29, <1>30, <1>31
     DEF Next, Lifecycle, Coordinate, Renew

-----------------------------------------------------------------------------
(* The invariant *)

(* The initial state satisfies it.                                           *)
LEMMA InitInv == Init => SupervisionInv
<1> SUFFICES ASSUME Init PROVE SupervisionInv
  OBVIOUS
<1>1. TypeOK
  BY InitTypes
<1>2. PlaceInv /\ LeaseInv /\ VerdictInv
  BY DEF Init, PlaceInv, LeaseInv, VerdictInv, Launching, Supervised, Held,
     CampaignOpen, TerminalState, NoRow, NoLock, HbOff
<1> QED BY <1>1, <1>2 DEF SupervisionInv

(* Where the coordinator goes when a call raises.                            *)
LEMMA FailToGoes ==
  ASSUME TypeOK, NEW next, FailTo(next)
  PROVE  /\ main.mode = "run" => main'.pc = "raised"
         /\ main'.pc \in {"raised", "abandoned", next}
         /\ main'.cause = main.cause
  BY DEF TypeOK, Coordinator, FailTo

(* A renewal that fails ends the thread and leaves the lease as it was.      *)
LEMMA RenewalFailsKeeps ==
  ASSUME TypeOK, NEW c, NEW at, RenewalFails(c, at)
  PROVE  /\ hb'.pc = "exited"
         /\ lock'.present = lock.present
         /\ lock'.beat = lock.beat /\ lock'.expiry = lock.expiry
  BY DEF TypeOK, LockFile, RenewalFails, Exited, HbOff

(* Every step of every party preserves it.                                   *)
LEMMA StepInv == SupervisionInv /\ [Next]_vars => SupervisionInv'
<1> SUFFICES ASSUME SupervisionInv, [Next]_vars PROVE SupervisionInv'
  OBVIOUS
<1>a. TypeOK /\ PlaceInv /\ LeaseInv /\ VerdictInv
  BY DEF SupervisionInv
<1>b. TypeOK'
  BY <1>a, StepTypes
<1> USE SupervisionConstants DEF At, Goto, store, Launching, Supervised, Held,
     StopEventClear, CampaignOpen, Target, TypeOK, SupRow, LockFile,
     CampaignRow, Coordinator, Heartbeat, Failure, Time, NoTime, Status,
     Cause, LeaseCause, StopReason, PreLifecycle, TerminalState
<1>1. CASE CreateDraft
  <2>1. PlaceInv'
    BY <1>a, <1>1 DEF CreateDraft, PlaceInv
  <2>2. LeaseInv'
    BY <1>a, <1>1 DEF CreateDraft, PlaceInv, LeaseInv
  <2>3. VerdictInv'
    BY <1>a, <1>1 DEF CreateDraft, PlaceInv, LeaseInv, VerdictInv
  <2> QED BY <1>b, <2>1, <2>2, <2>3 DEF SupervisionInv
<1>2. CASE StartCampaign
  <2>1. PlaceInv'
    BY <1>a, <1>2 DEF StartCampaign, PlaceInv
  <2>2. LeaseInv'
    BY <1>a, <1>2 DEF StartCampaign, PlaceInv, LeaseInv
  <2>3. VerdictInv'
    BY <1>a, <1>2 DEF StartCampaign, PlaceInv, LeaseInv, VerdictInv
  <2> QED BY <1>b, <2>1, <2>2, <2>3 DEF SupervisionInv
<1>3. CASE WriteLock
  <2>1. PlaceInv'
    BY <1>a, <1>3 DEF WriteLock, PlaceInv
  <2>2. LeaseInv'
    BY <1>a, <1>3 DEF WriteLock, PlaceInv, LeaseInv
  <2>3. VerdictInv'
    BY <1>a, <1>3 DEF WriteLock, PlaceInv, LeaseInv, VerdictInv
  <2> QED BY <1>b, <2>1, <2>2, <2>3 DEF SupervisionInv
<1>4. CASE AcquireLease
  <2>1. PlaceInv'
    BY <1>a, <1>4 DEF AcquireLease, NoRow, PlaceInv
  <2>2. LeaseInv'
    BY <1>a, <1>4 DEF AcquireLease, NoRow, PlaceInv, LeaseInv
  <2>3. VerdictInv'
    BY <1>a, <1>4 DEF AcquireLease, NoRow, PlaceInv, LeaseInv, VerdictInv
  <2> QED BY <1>b, <2>1, <2>2, <2>3 DEF SupervisionInv
<1>5. CASE AcquireFails
  <2>1. PlaceInv'
    BY <1>a, <1>5 DEF AcquireFails, FailTo, NoLock, PlaceInv
  <2>2. LeaseInv'
    BY <1>a, <1>5 DEF AcquireFails, FailTo, NoLock, PlaceInv, LeaseInv
  <2>3. VerdictInv'
    BY <1>a, <1>5 DEF AcquireFails, FailTo, NoLock, PlaceInv, LeaseInv,
         VerdictInv
  <2> QED BY <1>b, <2>1, <2>2, <2>3 DEF SupervisionInv
<1>6. CASE StartHeartbeat
  <2>1. PlaceInv'
    BY <1>a, <1>6 DEF StartHeartbeat, HbOff, PlaceInv
  <2>2. LeaseInv'
    BY <1>a, <1>6 DEF StartHeartbeat, HbOff, PlaceInv, LeaseInv
  <2>3. VerdictInv'
    BY <1>a, <1>6 DEF StartHeartbeat, HbOff, PlaceInv, LeaseInv, VerdictInv
  <2> QED BY <1>b, <2>1, <2>2, <2>3 DEF SupervisionInv
<1>7. CASE Raise
  <2>0. main'.pc = "raised" /\ UNCHANGED <<sup, campaign, lock, hb>>
    BY <1>a, <1>7, FailToGoes DEF Raise
  <2>1. PlaceInv'
    BY <1>a, <2>0, <1>7 DEF Raise, PlaceInv
  <2>2. LeaseInv'
    BY <1>a, <2>0 DEF LeaseInv
  <2>3. VerdictInv'
    BY <1>a, <2>0 DEF VerdictInv
  <2> QED BY <1>b, <2>1, <2>2, <2>3 DEF SupervisionInv
<1>8. CASE \E s \in Status, c \in {"OWN_CAUSE", PreLifecycle} : LifecycleEnds(s, c)
  <2>0. PICK s \in Status, c \in {"OWN_CAUSE", PreLifecycle} : LifecycleEnds(s, c)
    BY <1>8
  <2>1. PlaceInv'
    BY <1>a, <2>0 DEF LifecycleEnds, Ended, PlaceInv
  <2>2. LeaseInv'
    BY <1>a, <2>0 DEF LifecycleEnds, Ended, PlaceInv, LeaseInv
  <2>3. VerdictInv'
    BY <1>a, <2>0 DEF LifecycleEnds, Ended, PlaceInv, LeaseInv, VerdictInv
  <2> QED BY <1>b, <2>1, <2>2, <2>3 DEF SupervisionInv
<1>9. CASE StopObserved
  <2>1. PlaceInv'
    BY <1>a, <1>9 DEF StopObserved, Ended, ProbedReason, PlaceInv
  <2>2. LeaseInv'
    BY <1>a, <1>9 DEF StopObserved, Ended, ProbedReason, PlaceInv, LeaseInv
  <2>3. VerdictInv'
    BY <1>a, <1>9 DEF StopObserved, Ended, ProbedReason, PlaceInv, LeaseInv,
         VerdictInv
  <2> QED BY <1>b, <2>1, <2>2, <2>3 DEF SupervisionInv
<1>10. CASE PollHeartbeat
  <2>1. PlaceInv'
    BY <1>a, <1>10 DEF PollHeartbeat, PlaceInv
  <2>2. LeaseInv'
    BY <1>a, <1>10 DEF PollHeartbeat, PlaceInv, LeaseInv
  <2>3. VerdictInv'
    BY <1>a, <1>10 DEF PollHeartbeat, PlaceInv, LeaseInv, VerdictInv
  <2> QED BY <1>b, <2>1, <2>2, <2>3 DEF SupervisionInv
<1>11. CASE JoinHeartbeat
  <2>1. main.pc = "polled" /\ main.cause # "none" /\ hb'.pc = "off"
    BY <1>a, <1>11 DEF JoinHeartbeat, Joinable, Stopped, HbOff, PlaceInv
  <2>2. \/ main'.pc = "joined" /\ main'.cause # "none"
        \/ main'.pc \in {"raised", "abandoned"}
    <3>1. CASE FailTo("joined")
      BY <1>a, <2>1, <3>1, FailToGoes
    <3>2. CASE main' = [main EXCEPT !.pc = "joined",
                 !.status = IF Adopted THEN "FAILED" ELSE @,
                 !.cause  = IF Adopted THEN main.seen ELSE @]
      BY <1>a, <2>1, <3>2 DEF Adopted
    <3> QED BY <1>11, <3>1, <3>2 DEF JoinHeartbeat
  <2>3. UNCHANGED <<sup, campaign, lock>>
    BY <1>11 DEF JoinHeartbeat
  <2>4. PlaceInv'
    BY <1>a, <2>1, <2>2, <2>3 DEF PlaceInv
  <2>5. LeaseInv' /\ VerdictInv'
    BY <1>a, <2>1, <2>2, <2>3 DEF LeaseInv, VerdictInv
  <2> QED BY <1>b, <2>4, <2>5 DEF SupervisionInv
<1>12. CASE JoinAfterFault
  <2>1. PlaceInv'
    BY <1>a, <1>12 DEF JoinAfterFault, FirstCause, Supplied, Joinable,
         Stopped, HbOff, PlaceInv
  <2>2. LeaseInv'
    BY <1>a, <1>12 DEF JoinAfterFault, FirstCause, Supplied, Joinable,
         Stopped, HbOff, PlaceInv, LeaseInv
  <2>3. VerdictInv'
    BY <1>a, <1>12 DEF JoinAfterFault, FirstCause, Supplied, Joinable,
         Stopped, HbOff, PlaceInv, LeaseInv, VerdictInv
  <2> QED BY <1>b, <2>1, <2>2, <2>3 DEF SupervisionInv
<1>13. CASE TerminalizeFails
  <2>1. PlaceInv'
    BY <1>a, <1>13 DEF TerminalizeFails, Joinable, Stopped, HbOff, PlaceInv
  <2>2. LeaseInv'
    BY <1>a, <1>13 DEF TerminalizeFails, Joinable, Stopped, HbOff, PlaceInv,
         LeaseInv
  <2>3. VerdictInv'
    BY <1>a, <1>13 DEF TerminalizeFails, Joinable, Stopped, HbOff, PlaceInv,
         LeaseInv, VerdictInv
  <2> QED BY <1>b, <2>1, <2>2, <2>3 DEF SupervisionInv
<1>14. CASE CleanupCommit
  <2>1. PlaceInv'
    BY <1>a, <1>14 DEF CleanupCommit, Closed, CloseCampaign, Target,
         CampaignOpen, PlaceInv
  <2>2. LeaseInv'
    BY <1>a, <1>14 DEF CleanupCommit, Closed, CloseCampaign, Target,
         CampaignOpen, PlaceInv, LeaseInv
  <2>3. VerdictInv'
    BY <1>a, <1>14 DEF CleanupCommit, Closed, CloseCampaign, Target,
         CampaignOpen, PlaceInv, LeaseInv, VerdictInv
  <2> QED BY <1>b, <2>1, <2>2, <2>3 DEF SupervisionInv
<1>15. CASE CleanupReplay
  <2>1. PlaceInv'
    BY <1>a, <1>15 DEF CleanupReplay, PlaceInv
  <2>2. LeaseInv'
    BY <1>a, <1>15 DEF CleanupReplay, PlaceInv, LeaseInv
  <2>3. VerdictInv'
    BY <1>a, <1>15 DEF CleanupReplay, PlaceInv, LeaseInv, VerdictInv
  <2> QED BY <1>b, <2>1, <2>2, <2>3 DEF SupervisionInv
<1>16. CASE CleanupFails
  <2>1. PlaceInv'
    BY <1>a, <1>16 DEF CleanupFails, FailTo, PlaceInv
  <2>2. LeaseInv'
    BY <1>a, <1>16 DEF CleanupFails, FailTo, PlaceInv, LeaseInv
  <2>3. VerdictInv'
    BY <1>a, <1>16 DEF CleanupFails, FailTo, PlaceInv, LeaseInv, VerdictInv
  <2> QED BY <1>b, <2>1, <2>2, <2>3 DEF SupervisionInv
<1>17. CASE Unlink
  <2>1. PlaceInv'
    BY <1>a, <1>17 DEF Unlink, NoLock, PlaceInv
  <2>2. LeaseInv'
    BY <1>a, <1>17 DEF Unlink, NoLock, PlaceInv, LeaseInv
  <2>3. VerdictInv'
    BY <1>a, <1>17 DEF Unlink, NoLock, PlaceInv, LeaseInv, VerdictInv
  <2> QED BY <1>b, <2>1, <2>2, <2>3 DEF SupervisionInv
<1>18. CASE Finish
  <2>1. PlaceInv'
    BY <1>a, <1>18 DEF Finish, PlaceInv
  <2>2. LeaseInv'
    BY <1>a, <1>18 DEF Finish, PlaceInv, LeaseInv
  <2>3. VerdictInv'
    BY <1>a, <1>18 DEF Finish, PlaceInv, LeaseInv, VerdictInv
  <2> QED BY <1>b, <2>1, <2>2, <2>3 DEF SupervisionInv
<1>19. CASE ReleaseFails
  <2>1. PlaceInv'
    BY <1>a, <1>19 DEF ReleaseFails, FailTo, PlaceInv
  <2>2. LeaseInv'
    BY <1>a, <1>19 DEF ReleaseFails, FailTo, PlaceInv, LeaseInv
  <2>3. VerdictInv'
    BY <1>a, <1>19 DEF ReleaseFails, FailTo, PlaceInv, LeaseInv, VerdictInv
  <2> QED BY <1>b, <2>1, <2>2, <2>3 DEF SupervisionInv
<1>20. CASE Reconcile
  <2>1. PlaceInv'
    BY <1>a, <1>20 DEF Reconcile, CloseCampaign, CampaignOpen, Target,
         PlaceInv
  <2>2. LeaseInv'
    BY <1>a, <1>20 DEF Reconcile, CloseCampaign, CampaignOpen, Target,
         PlaceInv, LeaseInv
  <2>3. VerdictInv'
    BY <1>a, <1>20 DEF Reconcile, CloseCampaign, CampaignOpen, Target,
         PlaceInv, LeaseInv, VerdictInv
  <2> QED BY <1>b, <2>1, <2>2, <2>3 DEF SupervisionInv
<1>21. CASE ReconcileFails
  <2>1. PlaceInv'
    BY <1>a, <1>21 DEF ReconcileFails, FailTo, PlaceInv
  <2>2. LeaseInv'
    BY <1>a, <1>21 DEF ReconcileFails, FailTo, PlaceInv, LeaseInv
  <2>3. VerdictInv'
    BY <1>a, <1>21 DEF ReconcileFails, FailTo, PlaceInv, LeaseInv, VerdictInv
  <2> QED BY <1>b, <2>1, <2>2, <2>3 DEF SupervisionInv
<1>22. CASE Report
  <2>1. PlaceInv'
    BY <1>a, <1>22 DEF Report, PlaceInv
  <2>2. LeaseInv'
    BY <1>a, <1>22 DEF Report, PlaceInv, LeaseInv
  <2>3. VerdictInv'
    BY <1>a, <1>22 DEF Report, PlaceInv, LeaseInv, VerdictInv
  <2> QED BY <1>b, <2>1, <2>2, <2>3 DEF SupervisionInv
<1>23. CASE HbRefused
  <2>1. PlaceInv'
    BY <1>a, <1>23 DEF HbRefused, Due, Exited, HbOff, PlaceInv
  <2>2. LeaseInv'
    BY <1>a, <1>23 DEF HbRefused, Due, Exited, HbOff, PlaceInv, LeaseInv
  <2>3. VerdictInv'
    BY <1>a, <1>23 DEF HbRefused, Due, Exited, HbOff, PlaceInv, LeaseInv,
         VerdictInv
  <2> QED BY <1>b, <2>1, <2>2, <2>3 DEF SupervisionInv
<1>24. CASE HbRead
  <2>1. PlaceInv'
    BY <1>a, <1>24 DEF HbRead, Due, Exited, HbOff, RenewalFails, Expired,
         Monotonic, PlaceInv
  <2>2. LeaseInv'
    <3>1. sup' = sup /\ main' = main /\ sup.state = "ACTIVE" /\ hb.pc = "wait"
      BY <1>24 DEF HbRead, Due
    <3>2. CASE lock' = lock /\ now > sup.beat
               /\ hb' = [hb EXCEPT !.pc = "read", !.beat = sup.beat,
                                   !.expiry = sup.expiry, !.at = now]
      BY <1>a, <3>1, <3>2 DEF LeaseInv, PlaceInv
    <3>3. CASE \E c \in LeaseCause : RenewalFails(c, now)
      BY <1>a, <3>1, <3>3, RenewalFailsKeeps DEF LeaseInv, PlaceInv
    <3> QED BY <1>24, <3>2, <3>3 DEF HbRead, Monotonic
  <2>3. VerdictInv'
    BY <1>a, <1>24 DEF HbRead, Due, Exited, HbOff, RenewalFails, Expired,
         Monotonic, PlaceInv, LeaseInv, VerdictInv
  <2> QED BY <1>b, <2>1, <2>2, <2>3 DEF SupervisionInv
<1>25. CASE HbReplace
  <2>1. PlaceInv'
    BY <1>a, <1>25 DEF HbReplace, Exited, HbOff, RenewalFails, Renewed,
         PlaceInv
  <2>2. LeaseInv'
    <3>1. sup' = sup /\ main' = main /\ hb.pc = "read"
      BY <1>25 DEF HbReplace
    <3>2. CASE lock' = Renewed(hb.at) /\ hb' = [hb EXCEPT !.pc = "replaced"]
      BY <1>a, <3>1, <3>2 DEF LeaseInv, PlaceInv, Renewed
    <3>3. CASE RenewalFails("LEASE_RENEWAL_UNCONFIRMED", hb.at)
      BY <1>a, <3>1, <3>3, RenewalFailsKeeps DEF LeaseInv, PlaceInv
    <3> QED BY <1>25, <3>2, <3>3 DEF HbReplace
  <2>3. VerdictInv'
    BY <1>a, <1>25 DEF HbReplace, Exited, HbOff, RenewalFails, Renewed,
         PlaceInv, LeaseInv, VerdictInv
  <2> QED BY <1>b, <2>1, <2>2, <2>3 DEF SupervisionInv
<1>26. CASE HbCommit
  <2>0. /\ UNCHANGED <<main, campaign>> /\ hb.pc = "replaced"
        /\ sup'.state = sup.state /\ sup'.cause = sup.cause
        /\ sup'.released = sup.released
    <3>1. CASE sup' = [sup EXCEPT !.beat = hb.at, !.expiry = hb.at + Lease]
      BY <1>26, <3>1 DEF HbCommit
    <3>2. CASE UNCHANGED sup
      BY <1>26, <3>2 DEF HbCommit
    <3> QED BY <1>26, <3>1, <3>2 DEF HbCommit
  <2>1. PlaceInv'
    BY <1>a, <2>0 DEF PlaceInv
  <2>2. LeaseInv'
    <3>1. main' = main /\ hb.pc = "replaced"
      BY <1>26 DEF HbCommit
    <3>2. CASE /\ sup' = [sup EXCEPT !.beat = hb.at, !.expiry = hb.at + Lease]
               /\ lock' = lock /\ hb' = [HbOff EXCEPT !.pc = "wait"]
      BY <1>a, <3>1, <3>2 DEF LeaseInv, PlaceInv, HbOff
    <3>3. CASE sup' = sup /\ \E c \in LeaseCause : RenewalFails(c, hb.at)
      BY <1>a, <3>1, <3>3, RenewalFailsKeeps DEF LeaseInv, PlaceInv
    <3> QED BY <1>26, <3>2, <3>3 DEF HbCommit
  <2>3. VerdictInv'
    BY <1>a, <2>0 DEF VerdictInv, PlaceInv
  <2> QED BY <1>b, <2>1, <2>2, <2>3 DEF SupervisionInv
<1>27. CASE RequestStop
  <2>1. PlaceInv'
    BY <1>a, <1>27 DEF RequestStop, PlaceInv
  <2>2. LeaseInv'
    BY <1>a, <1>27 DEF RequestStop, PlaceInv, LeaseInv
  <2>3. VerdictInv'
    BY <1>a, <1>27 DEF RequestStop, PlaceInv, LeaseInv, VerdictInv
  <2> QED BY <1>b, <2>1, <2>2, <2>3 DEF SupervisionInv
<1>28. CASE ClockMoves
  <2>1. PlaceInv'
    BY <1>a, <1>28 DEF ClockMoves, PlaceInv
  <2>2. LeaseInv'
    BY <1>a, <1>28 DEF ClockMoves, PlaceInv, LeaseInv
  <2>3. VerdictInv'
    BY <1>a, <1>28 DEF ClockMoves, PlaceInv, LeaseInv, VerdictInv
  <2> QED BY <1>b, <2>1, <2>2, <2>3 DEF SupervisionInv
<1>29. CASE Crash
  <2>1. PlaceInv'
    BY <1>a, <1>29 DEF Crash, HbOff, NoFailure, PlaceInv
  <2>2. LeaseInv'
    BY <1>a, <1>29 DEF Crash, HbOff, NoFailure, PlaceInv, LeaseInv
  <2>3. VerdictInv'
    BY <1>a, <1>29 DEF Crash, HbOff, NoFailure, PlaceInv, LeaseInv, VerdictInv
  <2> QED BY <1>b, <2>1, <2>2, <2>3 DEF SupervisionInv
<1>30. CASE RecoverOrphan
  <2>1. PlaceInv'
    BY <1>a, <1>30 DEF RecoverOrphan, PlaceInv
  <2>2. LeaseInv'
    BY <1>a, <1>30 DEF RecoverOrphan, PlaceInv, LeaseInv
  <2>3. VerdictInv'
    BY <1>a, <1>30 DEF RecoverOrphan, PlaceInv, LeaseInv, VerdictInv
  <2> QED BY <1>b, <2>1, <2>2, <2>3 DEF SupervisionInv
<1>31. CASE UNCHANGED vars
  BY <1>a, <1>31 DEF vars, SupervisionInv, PlaceInv, LeaseInv, VerdictInv
<1> QED BY <1>1, <1>2, <1>3, <1>4, <1>5, <1>6, <1>7, <1>8, <1>9, <1>10, <1>11,
     <1>12, <1>13, <1>14, <1>15, <1>16, <1>17, <1>18, <1>19, <1>20, <1>21,
     <1>22, <1>23, <1>24, <1>25, <1>26, <1>27, <1>28, <1>29, <1>30, <1>31
     DEF Next, Lifecycle, Coordinate, Renew

(* Every state of every behaviour satisfies the invariant.                   *)
THEOREM SupervisionInvariant == Spec => []SupervisionInv
  BY InitInv, StepInv, PTL DEF Spec

-----------------------------------------------------------------------------
(* What the invariant gives *)

(* Every variable keeps the type of the columns and file fields it models.   *)
THEOREM TypeCorrect == Spec => []TypeOK
<1>1. SupervisionInv => TypeOK
  BY DEF SupervisionInv
<1> QED BY <1>1, SupervisionInvariant, PTL

(* A row that is ACTIVE or STOPPING has its lock file, at every point of     *)
(* acquisition, renewal, cleanup, fault and recovery.                        *)
THEOREM LeaseIsHeld == Spec => []LeaseHeldWhileActive
<1>1. SupervisionInv => LeaseHeldWhileActive
  BY DEF SupervisionInv, LeaseInv, LeaseHeldWhileActive
<1> QED BY <1>1, SupervisionInvariant, PTL

(* renew_campaign_lease replaces the file before it updates the row, so the  *)
(* row never promises more than the file.                                    *)
THEOREM LedgerIsNeverAhead == Spec => []LedgerNeverAhead
<1>1. SupervisionInv => LedgerNeverAhead
  BY SupervisionConstants DEF SupervisionInv, LeaseInv, LedgerNeverAhead
<1> QED BY <1>1, SupervisionInvariant, PTL

(* lease_released_at is written last, and the file does not come back: the   *)
(* coordinator joined the heartbeat thread before it cleaned up.             *)
THEOREM ReleaseIsLast == Spec => []NoLockAfterRelease
<1>1. SupervisionInv => NoLockAfterRelease
  BY DEF SupervisionInv, VerdictInv, NoLockAfterRelease, TypeOK, SupRow
<1> QED BY <1>1, SupervisionInvariant, PTL

(* The supervision row and the campaign agree on status and first cause.     *)
THEOREM VerdictsAgree == Spec => []VerdictAgrees
<1>1. SupervisionInv => VerdictAgrees
  BY DEF SupervisionInv, VerdictInv, VerdictAgrees
<1> QED BY <1>1, SupervisionInvariant, PTL

-----------------------------------------------------------------------------
(* Steps that touch the row or the file *)

(* These write neither.                                                      *)
QuietStep ==
  \/ CreateDraft \/ StartCampaign \/ StartHeartbeat \/ Lifecycle \/ StopObserved
  \/ PollHeartbeat \/ JoinHeartbeat \/ JoinAfterFault \/ TerminalizeFails
  \/ CleanupReplay \/ CleanupFails \/ ReleaseFails \/ Reconcile \/ ReconcileFails
  \/ Report \/ HbRefused \/ ClockMoves \/ Crash \/ RecoverOrphan
  \/ UNCHANGED vars

(* A quiet step leaves the row and the file alone.                           *)
LEMMA QuietStepKeeps == QuietStep => UNCHANGED <<sup, lock>>
  BY DEF QuietStep, CreateDraft, StartCampaign, StartHeartbeat, Lifecycle, LifecycleEnds,
     Raise, StopObserved, PollHeartbeat, JoinHeartbeat, JoinAfterFault,
     TerminalizeFails, CleanupReplay, CleanupFails, ReleaseFails, Reconcile,
     ReconcileFails, Report, HbRefused, ClockMoves, Crash, RecoverOrphan, store, vars

(* All the others, by name.                                                  *)
LEMMA StepCases ==
  ASSUME [Next]_vars
  PROVE  \/ QuietStep \/ WriteLock \/ AcquireLease \/ AcquireFails
         \/ CleanupCommit \/ Unlink \/ Finish
         \/ HbRead \/ HbReplace \/ HbCommit \/ RequestStop
  BY DEF Next, Coordinate, Renew, QuietStep

(* What one step can do to the verdict and to the presence of the file.      *)
SameVerdict == /\ sup'.state = sup.state /\ sup'.status = sup.status
               /\ sup'.cause = sup.cause
LeaseStep ==
  \/ SameVerdict /\ (sup.state = "TERMINAL" => lock'.present = lock.present)
  \/ sup.state = "ABSENT" /\ sup'.state = "ACTIVE"
  \/ sup.state = "ACTIVE" /\ sup'.state = "STOPPING"
  \/ /\ sup.state \in Held /\ sup'.state = "TERMINAL"
     /\ lock' = lock /\ lock.present
  \/ SameVerdict /\ sup.state = "TERMINAL" /\ ~lock'.present

(* Every step is one of these.                                               *)
LEMMA EveryLeaseStep == ASSUME SupervisionInv, [Next]_vars PROVE LeaseStep
<1>a. TypeOK /\ PlaceInv /\ LeaseInv /\ VerdictInv
  BY DEF SupervisionInv
<1> USE DEF LeaseStep, SameVerdict, TypeOK, SupRow, LockFile
<1>1. CASE QuietStep
  BY <1>1, QuietStepKeeps
<1>2. CASE WriteLock
  BY <1>a, <1>2 DEF WriteLock, At, PlaceInv, Launching
<1>3. CASE AcquireLease
  BY <1>3 DEF AcquireLease, NoRow
<1>4. CASE AcquireFails
  BY <1>a, <1>4 DEF AcquireFails, At, PlaceInv, Launching
<1>5. CASE CleanupCommit
  BY <1>a, <1>5 DEF CleanupCommit, Closed, LeaseInv, Held
<1>6. CASE Unlink
  BY <1>a, <1>6 DEF Unlink, At, PlaceInv, NoLock
<1>7. CASE Finish
  BY <1>7 DEF Finish
<1>8. CASE HbRead
  BY <1>8 DEF HbRead, RenewalFails
<1>9. CASE HbReplace
  BY <1>a, <1>9 DEF HbReplace, PlaceInv, Held
<1>10. CASE HbCommit
  BY <1>a, <1>10 DEF HbCommit, PlaceInv, Held
<1>11. CASE RequestStop
  BY <1>11 DEF RequestStop
<1> QED BY StepCases, <1>1, <1>2, <1>3, <1>4, <1>5, <1>6, <1>7, <1>8, <1>9,
           <1>10, <1>11

-----------------------------------------------------------------------------
(* Supervision implements LeaseLifecycle: one owner, one verdict, and the    *)
(* release after the verdict.                                                *)
THEOREM SupervisionKeepsItsPromise == Spec => LeasePromise
<1>1. Init => Promise!Init
  BY DEF Init, NoRow, Promise!Init
<1>2. SupervisionInv /\ SupervisionInv' /\ [Next]_vars
        => [Promise!Next]_(Promise!leaseVars)
  <2> SUFFICES ASSUME SupervisionInv, SupervisionInv', [Next]_vars
               PROVE  [Promise!Next]_(Promise!leaseVars)
    OBVIOUS
  <2>a. sup.state \in {"ABSENT", "ACTIVE", "STOPPING", "TERMINAL"}
    BY DEF SupervisionInv, TypeOK, SupRow
  <2>b. sup'.state = "TERMINAL" => [status |-> sup'.status, cause |-> sup'.cause] \in Verdict
    BY DEF SupervisionInv, VerdictInv, Verdict
  <2> USE DEF Promise!leaseVars, Promise!Next
  <2>1. CASE SameVerdict /\ (sup.state = "TERMINAL" => lock'.present = lock.present)
    BY <2>a, <2>1 DEF SameVerdict
  <2>2. CASE sup.state = "ABSENT" /\ sup'.state = "ACTIVE"
    BY <2>2 DEF Promise!Acquire
  <2>3. CASE sup.state = "ACTIVE" /\ sup'.state = "STOPPING"
    BY <2>3 DEF Promise!RequestStop
  <2>4. CASE /\ sup.state \in Held /\ sup'.state = "TERMINAL"
             /\ lock' = lock /\ lock.present
    BY <2>b, <2>4 DEF Promise!Close, Held
  <2>5. CASE SameVerdict /\ sup.state = "TERMINAL" /\ ~lock'.present
    BY <2>5 DEF Promise!Release, SameVerdict
  <2> QED BY EveryLeaseStep, <2>1, <2>2, <2>3, <2>4, <2>5 DEF LeaseStep
<1> QED BY <1>1, <1>2, SupervisionInvariant, PTL DEF Spec, LeasePromise, Promise!Spec

-----------------------------------------------------------------------------
(* A terminal row and a terminal campaign keep status and first cause.       *)
THEOREM CauseIsFinal == Spec => FirstCauseImmutable
<1> DEFINE Final ==
      /\ campaign.state \in TerminalState => campaign' = campaign
      /\ sup.state = "TERMINAL" =>
           /\ sup'.state = "TERMINAL"
           /\ sup'.status = sup.status /\ sup'.cause = sup.cause
<1>1. SupervisionInv /\ [Next]_vars => [Final]_vars
  <2> SUFFICES ASSUME SupervisionInv, [Next]_vars PROVE Final
    OBVIOUS
  <2>1. sup.state = "TERMINAL" => SameVerdict
    BY EveryLeaseStep DEF LeaseStep, Held
  <2>2. SUFFICES ASSUME campaign.state \in TerminalState PROVE campaign' = campaign
    BY <2>1 DEF SameVerdict
  <2>3. ~CreateDraft /\ ~StartCampaign
    BY <2>2 DEF SupervisionInv, PlaceInv, CreateDraft, StartCampaign, At, CampaignOpen
  <2>4. ~CleanupCommit /\ (Reconcile => campaign' = campaign)
    BY <2>2 DEF CleanupCommit, Reconcile, CampaignOpen
  <2>5. RequestStop => campaign' = campaign
    BY <2>2 DEF RequestStop, SupervisionInv, TypeOK, CampaignRow, TerminalState
  <2> QED BY <2>3, <2>4, <2>5 DEF Next, Lifecycle, Coordinate, Renew, vars, store,
       WriteLock, AcquireLease, AcquireFails, StartHeartbeat, Raise, LifecycleEnds,
       StopObserved, PollHeartbeat, JoinHeartbeat, JoinAfterFault, TerminalizeFails,
       CleanupReplay, CleanupFails, Unlink, Finish, ReleaseFails, ReconcileFails,
       Report, HbRefused, HbRead, HbReplace, HbCommit, ClockMoves, Crash, RecoverOrphan
<1> QED BY <1>1, SupervisionInvariant, PTL DEF Spec, FirstCauseImmutable

-----------------------------------------------------------------------------
(* While the lease is held, heartbeat and expiry go forward only, in the row *)
(* and in the file, whatever the wall clock does.                            *)
THEOREM LeaseMovesForward == Spec => LeaseAdvances
<1> DEFINE Forward ==
      sup.state \in Held /\ sup'.state \in Held
        => /\ sup'.beat >= sup.beat /\ sup'.expiry >= sup.expiry
           /\ lock'.beat >= lock.beat /\ lock'.expiry >= lock.expiry
<1>1. SupervisionInv /\ [Next]_vars => [Forward]_vars
  <2> SUFFICES ASSUME SupervisionInv, [Next]_vars,
                      sup.state \in Held, sup'.state \in Held
               PROVE  /\ sup'.beat >= sup.beat /\ sup'.expiry >= sup.expiry
                      /\ lock'.beat >= lock.beat /\ lock'.expiry >= lock.expiry
    OBVIOUS
  <2>a. /\ sup.beat \in Nat /\ sup.expiry \in Nat /\ lock.beat \in Nat
        /\ lock.expiry \in Nat /\ lock.expiry = lock.beat + Lease
        /\ sup.expiry = sup.beat + Lease
    BY SupervisionConstants DEF SupervisionInv, LeaseInv
  <2>b. TypeOK /\ PlaceInv /\ LeaseInv
    BY DEF SupervisionInv
  <2>1. CASE QuietStep
    BY <2>a, <2>1, QuietStepKeeps
  <2>2. ~WriteLock /\ ~AcquireLease /\ ~AcquireFails /\ ~Unlink
    BY <2>b DEF PlaceInv, Launching, Held, WriteLock, AcquireLease, AcquireFails,
         Unlink, At
  <2>3. CASE CleanupCommit
    BY <2>3 DEF CleanupCommit, Closed, Held, SupervisionInv, TypeOK, SupRow
  <2>4. CASE Finish
    BY <2>a, <2>b, <2>4 DEF Finish, TypeOK, SupRow
  <2>5. CASE RequestStop
    BY <2>a, <2>b, <2>5 DEF RequestStop, TypeOK, SupRow
  <2>6. CASE HbRead
    BY <2>a, <2>b, <2>6 DEF HbRead, RenewalFails, TypeOK, LockFile
  <2>7. CASE HbReplace
    <3>1. sup' = sup /\ hb.at \in Nat /\ hb.at > lock.beat
      BY <2>a, <2>b, <2>7 DEF HbReplace, LeaseInv
    <3>2. CASE lock' = Renewed(hb.at)
      BY SupervisionConstants, <2>a, <2>b, <3>1, <3>2 DEF Renewed, TypeOK, LockFile
    <3>3. CASE RenewalFails("LEASE_RENEWAL_UNCONFIRMED", hb.at)
      BY <2>a, <2>b, <3>1, <3>3, RenewalFailsKeeps
    <3> QED BY <2>7, <3>2, <3>3 DEF HbReplace
  <2>8. CASE HbCommit
    <3>1. hb.at \in Nat /\ hb.at > sup.beat
      BY <2>b, <2>8 DEF HbCommit, LeaseInv
    <3>2. CASE /\ sup' = [sup EXCEPT !.beat = hb.at, !.expiry = hb.at + Lease]
               /\ lock' = lock
      BY SupervisionConstants, <2>a, <2>b, <3>1, <3>2 DEF TypeOK, SupRow
    <3>3. CASE sup' = sup /\ \E c \in LeaseCause : RenewalFails(c, hb.at)
      BY <2>a, <2>b, <3>3, RenewalFailsKeeps
    <3> QED BY <2>8, <3>2, <3>3 DEF HbCommit, LeaseCause
  <2> QED BY StepCases, <2>1, <2>2, <2>3, <2>4, <2>5, <2>6, <2>7, <2>8
<1> QED BY <1>1, SupervisionInvariant, PTL DEF Spec, LeaseAdvances

-----------------------------------------------------------------------------
(* Without disk faults                                                       *)
(*                                                                           *)
(* A call of the exception path or of the recovery then raises only when the *)
(* row it needs is not there or the campaign was closed before the row was.  *)
(* Neither happens, so the cleanup runs to its end on every path.            *)
QuietInv ==
  /\ sup.state \in Held => CampaignOpen
  /\ main.pc \in {"raised", "joined"} => sup.state # "ABSENT"
  /\ main.pc \in {"cleaned", "reconciled", "done"} =>
       sup.state = "TERMINAL" /\ ~lock.present

(* Every step that no disk fault disturbs preserves it.                      *)
LEMMA QuietStepInv ==
  ASSUME ~DiskFaults
  PROVE  SupervisionInv /\ QuietInv /\ [Next]_vars => QuietInv'
<1> SUFFICES ASSUME SupervisionInv, QuietInv, [Next]_vars PROVE QuietInv'
  OBVIOUS
<1>a. ~DiskFaults /\ TypeOK /\ PlaceInv /\ VerdictInv /\ QuietInv
  BY DEF SupervisionInv
<1> USE SupervisionConstants DEF At, Goto, store, Launching, Supervised, Held,
     StopEventClear, CampaignOpen, Target, TypeOK, SupRow, LockFile,
     CampaignRow, Coordinator, Heartbeat, Failure, Time, NoTime, Status,
     Cause, LeaseCause, StopReason, PreLifecycle, TerminalState
<1>1. CASE CreateDraft
  BY <1>a, <1>1 DEF CreateDraft, PlaceInv, VerdictInv, QuietInv
<1>2. CASE StartCampaign
  BY <1>a, <1>2 DEF StartCampaign, PlaceInv, VerdictInv, QuietInv
<1>3. CASE WriteLock
  BY <1>a, <1>3 DEF WriteLock, PlaceInv, VerdictInv, QuietInv
<1>4. CASE AcquireLease
  BY <1>a, <1>4 DEF AcquireLease, NoRow, PlaceInv, VerdictInv, QuietInv
<1>5. CASE AcquireFails
  BY <1>a, <1>5 DEF AcquireFails, FailTo, NoLock, PlaceInv, VerdictInv, QuietInv
<1>6. CASE StartHeartbeat
  BY <1>a, <1>6 DEF StartHeartbeat, HbOff, PlaceInv, VerdictInv, QuietInv
<1>7. CASE Raise
  <2>1. main'.pc = "raised" /\ UNCHANGED store
    BY <1>a, <1>7, FailToGoes DEF Raise
  <2> QED BY <1>a, <1>7, <2>1 DEF Raise, PlaceInv, VerdictInv, QuietInv
<1>8. CASE \E s \in Status, c \in {"OWN_CAUSE", PreLifecycle} : LifecycleEnds(s, c)
  BY <1>a, <1>8 DEF LifecycleEnds, Ended, PlaceInv, VerdictInv, QuietInv
<1>9. CASE StopObserved
  BY <1>a, <1>9 DEF StopObserved, Ended, PlaceInv, VerdictInv, QuietInv
<1>10. CASE PollHeartbeat
  BY <1>a, <1>10 DEF PollHeartbeat, PlaceInv, VerdictInv, QuietInv
<1>11. CASE JoinHeartbeat
  <2>1. main'.pc = "joined" /\ UNCHANGED <<sup, campaign, lock>>
    BY <1>a, <1>11 DEF JoinHeartbeat
  <2> QED BY <1>a, <1>11, <2>1 DEF JoinHeartbeat, PlaceInv, QuietInv
<1>12. CASE JoinAfterFault
  BY <1>a, <1>12 DEF JoinAfterFault, PlaceInv, VerdictInv, QuietInv
<1>13. CASE TerminalizeFails
  BY <1>a, <1>13 DEF TerminalizeFails, PlaceInv, VerdictInv, QuietInv
<1>14. CASE CleanupCommit
  BY <1>a, <1>14 DEF CleanupCommit, Closed, CloseCampaign, PlaceInv, VerdictInv, QuietInv
<1>15. CASE CleanupReplay
  BY <1>a, <1>15 DEF CleanupReplay, PlaceInv, VerdictInv, QuietInv
<1>16. CASE CleanupFails
  BY <1>a, <1>16 DEF CleanupFails, FailTo, PlaceInv, VerdictInv, QuietInv
<1>17. CASE Unlink
  BY <1>a, <1>17 DEF Unlink, NoLock, PlaceInv, VerdictInv, QuietInv
<1>18. CASE Finish
  BY <1>a, <1>18 DEF Finish, PlaceInv, VerdictInv, QuietInv
<1>19. CASE ReleaseFails
  BY <1>a, <1>19 DEF ReleaseFails, FailTo, PlaceInv, VerdictInv, QuietInv
<1>20. CASE Reconcile
  BY <1>a, <1>20 DEF Reconcile, CloseCampaign, PlaceInv, VerdictInv, QuietInv
<1>21. CASE ReconcileFails
  BY <1>a, <1>21 DEF ReconcileFails, FailTo, PlaceInv, VerdictInv, QuietInv
<1>22. CASE Report
  BY <1>a, <1>22 DEF Report, PlaceInv, VerdictInv, QuietInv
<1>23. CASE HbRefused
  BY <1>a, <1>23 DEF HbRefused, Due, Exited, PlaceInv, VerdictInv, QuietInv
<1>24. CASE HbRead
  BY <1>a, <1>24 DEF HbRead, Due, RenewalFails, Exited, PlaceInv, VerdictInv, QuietInv
<1>25. CASE HbReplace
  BY <1>a, <1>25 DEF HbReplace, RenewalFails, Exited, Renewed, PlaceInv, VerdictInv, QuietInv
<1>26. CASE HbCommit
  BY <1>a, <1>26 DEF HbCommit, RenewalFails, Exited, PlaceInv, VerdictInv, QuietInv
<1>27. CASE RequestStop
  BY <1>a, <1>27 DEF RequestStop, PlaceInv, VerdictInv, QuietInv
<1>28. CASE ClockMoves
  BY <1>a, <1>28 DEF ClockMoves, PlaceInv, VerdictInv, QuietInv
<1>29. CASE Crash
  BY <1>a, <1>29 DEF Crash, PlaceInv, VerdictInv, QuietInv
<1>30. CASE RecoverOrphan
  BY <1>a, <1>30 DEF RecoverOrphan, PlaceInv, VerdictInv, QuietInv
<1>31. CASE UNCHANGED vars
  BY <1>a, <1>31 DEF vars, PlaceInv, VerdictInv, QuietInv
<1> QED BY <1>1, <1>2, <1>3, <1>4, <1>5, <1>6, <1>7, <1>8, <1>9, <1>10, <1>11, <1>12, <1>13, <1>14, <1>15, <1>16, <1>17, <1>18, <1>19, <1>20, <1>21, <1>22, <1>23, <1>24, <1>25, <1>26, <1>27, <1>28, <1>29, <1>30, <1>31
     DEF Next, Lifecycle, Coordinate, Renew

(* When no SQLite or file operation raises, a command that ends leaves no    *)
(* held lease, no open campaign and no lock file, whether the lifecycle      *)
(* ended by itself, was stopped, lost its lease or raised.                   *)
THEOREM FaultFreeEndsQuiet == ~DiskFaults => (Spec => []QuietAtEnd)
<1> SUFFICES ASSUME ~DiskFaults PROVE Spec => []QuietAtEnd
  OBVIOUS
<1>1. Init => QuietInv
  BY DEF Init, QuietInv, NoRow, Held
<1>2. SupervisionInv /\ QuietInv /\ [Next]_vars => QuietInv'
  BY QuietStepInv
<1>3. SupervisionInv /\ QuietInv => QuietAtEnd
  BY DEF SupervisionInv, VerdictInv, QuietInv, QuietAtEnd, At, Held, CampaignOpen,
     Target, TerminalState
<1> QED BY <1>1, <1>2, <1>3, SupervisionInvariant, PTL DEF Spec

-----------------------------------------------------------------------------
(* What the coordinator has seen                                             *)
(*                                                                           *)
(* Up to the join the coordinator is on its straight path.  The join         *)
(* persists the failure before the status can become COMPLETED, and the row  *)
(* takes its status from the coordinator only afterwards.                    *)
EvidenceInv ==
  /\ main.pc \in Launching \cup Supervised => main.mode = "run"
  /\ sup.state # "TERMINAL" => sup.status = "none"
  /\ main.seen # "none"
     /\ (sup.status = "COMPLETED" \/ (At("joined") /\ main.status = "COMPLETED"))
       => evidence

(* Every step of every party preserves it, disk faults included.             *)
LEMMA EvidenceStepInv == SupervisionInv /\ EvidenceInv /\ [Next]_vars => EvidenceInv'
<1> SUFFICES ASSUME SupervisionInv, EvidenceInv, [Next]_vars PROVE EvidenceInv'
  OBVIOUS
<1>a. TypeOK /\ PlaceInv /\ EvidenceInv
  BY DEF SupervisionInv
<1> USE SupervisionConstants DEF At, Goto, store, Launching, Supervised, Held,
     StopEventClear, CampaignOpen, Target, TypeOK, SupRow, LockFile,
     CampaignRow, Coordinator, Heartbeat, Failure, Time, NoTime, Status,
     Cause, LeaseCause, StopReason, PreLifecycle, TerminalState
<1>1. CASE CreateDraft
  BY <1>a, <1>1 DEF CreateDraft, PlaceInv, EvidenceInv
<1>2. CASE StartCampaign
  BY <1>a, <1>2 DEF StartCampaign, PlaceInv, EvidenceInv
<1>3. CASE WriteLock
  BY <1>a, <1>3 DEF WriteLock, PlaceInv, EvidenceInv
<1>4. CASE AcquireLease
  BY <1>a, <1>4 DEF AcquireLease, NoRow, PlaceInv, EvidenceInv
<1>5. CASE AcquireFails
  BY <1>a, <1>5 DEF AcquireFails, FailTo, NoLock, PlaceInv, EvidenceInv
<1>6. CASE StartHeartbeat
  BY <1>a, <1>6 DEF StartHeartbeat, HbOff, PlaceInv, EvidenceInv
<1>7. CASE Raise
  <2>1. main'.pc = "raised" /\ main'.seen = main.seen /\ UNCHANGED store
    BY <1>a, <1>7 DEF Raise, FailTo
  <2> QED BY <1>a, <2>1 DEF EvidenceInv
<1>8. CASE \E s \in Status, c \in {"OWN_CAUSE", PreLifecycle} : LifecycleEnds(s, c)
  BY <1>a, <1>8 DEF LifecycleEnds, Ended, PlaceInv, EvidenceInv
<1>9. CASE StopObserved
  BY <1>a, <1>9 DEF StopObserved, Ended, PlaceInv, EvidenceInv
<1>10. CASE PollHeartbeat
  BY <1>a, <1>10 DEF PollHeartbeat, PlaceInv, EvidenceInv
<1>11. CASE JoinHeartbeat
  <2>1. UNCHANGED sup /\ sup.status = "none" /\ main.pc = "polled"
    BY <1>a, <1>11 DEF JoinHeartbeat, PlaceInv, EvidenceInv
  <2>2. CASE /\ main'.pc = "joined" /\ main'.seen = main.seen
             /\ main.seen # "none" => evidence'
    BY <2>1, <2>2 DEF EvidenceInv
  <2>3. CASE FailTo("joined")
    <3>1. main'.pc = "raised"
      BY <1>a, <2>1, <2>3, FailToGoes DEF EvidenceInv
    <3> QED BY <2>1, <3>1 DEF EvidenceInv
  <2> QED BY <1>a, <1>11, <2>2, <2>3 DEF JoinHeartbeat
<1>12. CASE JoinAfterFault
  BY <1>a, <1>12 DEF JoinAfterFault, PlaceInv, EvidenceInv
<1>13. CASE TerminalizeFails
  BY <1>a, <1>13 DEF TerminalizeFails, PlaceInv, EvidenceInv
<1>14. CASE CleanupCommit
  BY <1>a, <1>14 DEF CleanupCommit, Closed, CloseCampaign, PlaceInv, EvidenceInv
<1>15. CASE CleanupReplay
  BY <1>a, <1>15 DEF CleanupReplay, PlaceInv, EvidenceInv
<1>16. CASE CleanupFails
  BY <1>a, <1>16 DEF CleanupFails, FailTo, PlaceInv, EvidenceInv
<1>17. CASE Unlink
  BY <1>a, <1>17 DEF Unlink, NoLock, PlaceInv, EvidenceInv
<1>18. CASE Finish
  BY <1>a, <1>18 DEF Finish, PlaceInv, EvidenceInv
<1>19. CASE ReleaseFails
  BY <1>a, <1>19 DEF ReleaseFails, FailTo, PlaceInv, EvidenceInv
<1>20. CASE Reconcile
  BY <1>a, <1>20 DEF Reconcile, CloseCampaign, PlaceInv, EvidenceInv
<1>21. CASE ReconcileFails
  BY <1>a, <1>21 DEF ReconcileFails, FailTo, PlaceInv, EvidenceInv
<1>22. CASE Report
  BY <1>a, <1>22 DEF Report, PlaceInv, EvidenceInv
<1>23. CASE HbRefused
  BY <1>a, <1>23 DEF HbRefused, Due, Exited, PlaceInv, EvidenceInv
<1>24. CASE HbRead
  BY <1>a, <1>24 DEF HbRead, Due, RenewalFails, Exited, PlaceInv, EvidenceInv
<1>25. CASE HbReplace
  BY <1>a, <1>25 DEF HbReplace, RenewalFails, Exited, Renewed, PlaceInv, EvidenceInv
<1>26. CASE HbCommit
  BY <1>a, <1>26 DEF HbCommit, RenewalFails, Exited, PlaceInv, EvidenceInv
<1>27. CASE RequestStop
  BY <1>a, <1>27 DEF RequestStop, PlaceInv, EvidenceInv
<1>28. CASE ClockMoves
  BY <1>a, <1>28 DEF ClockMoves, PlaceInv, EvidenceInv
<1>29. CASE Crash
  BY <1>a, <1>29 DEF Crash, PlaceInv, EvidenceInv
<1>30. CASE RecoverOrphan
  BY <1>a, <1>30 DEF RecoverOrphan, PlaceInv, EvidenceInv
<1>31. CASE UNCHANGED vars
  BY <1>a, <1>31 DEF vars, PlaceInv, EvidenceInv
<1> QED BY <1>1, <1>2, <1>3, <1>4, <1>5, <1>6, <1>7, <1>8, <1>9, <1>10, <1>11, <1>12, <1>13, <1>14, <1>15, <1>16, <1>17, <1>18, <1>19, <1>20, <1>21, <1>22, <1>23, <1>24, <1>25, <1>26, <1>27, <1>28, <1>29, <1>30, <1>31
     DEF Next, Lifecycle, Coordinate, Renew

(* The loss that EvidenceCopiedBeforeRelease allows is bounded: a run that   *)
(* ends COMPLETED never loses a renewal failure that its coordinator had     *)
(* polled, only one that came after the poll.                                *)
THEOREM SeenFailuresAreDurable == Spec => []SeenIsDurable
<1>1. Init => EvidenceInv
  BY DEF Init, EvidenceInv, NoRow, Launching, Supervised
<1>2. EvidenceInv => SeenIsDurable
  BY DEF EvidenceInv, SeenIsDurable
<1>3. SupervisionInv /\ EvidenceInv /\ [Next]_vars => EvidenceInv'
  BY EvidenceStepInv
<1> QED BY <1>1, <1>2, <1>3, SupervisionInvariant, PTL DEF Spec

-----------------------------------------------------------------------------
(* The coordinator comes to an end                                           *)

(* A call that raises leads onward, on every path: to the exception path     *)
(* from the straight one, to the next step of the exception path, out of the *)
(* recovery.                                                                 *)
LEMMA FailToAdvances ==
  ASSUME TypeOK, NEW next, FailTo(next),
         main.mode = "run" \/ PcRank(next) > PcRank(main.pc),
         PcRank(main.pc) < 14
  PROVE  \/ ModeRank(main'.mode) > ModeRank(main.mode)
         \/ main'.mode = main.mode /\ PcRank(main'.pc) > PcRank(main.pc)
<1>1. CASE main.mode = "run"
  <2>1. main'.mode = "fault"
    BY <1>1 DEF FailTo, TypeOK, Coordinator
  <2> QED BY <1>1, <2>1 DEF ModeRank
<1>2. CASE main.mode = "fault"
  <2>1. main'.mode = main.mode /\ main'.pc = next
    BY <1>2 DEF FailTo, TypeOK, Coordinator
  <2> QED BY <1>2, <2>1
<1>3. CASE main.mode = "recover"
  <2>1. main'.mode = main.mode /\ main'.pc = "abandoned"
    BY <1>3 DEF FailTo, TypeOK, Coordinator
  <2>2. PcRank("abandoned") = 14
    BY DEF PcRank
  <2> QED BY <2>1, <2>2
<1> QED BY <1>1, <1>2, <1>3 DEF TypeOK, Coordinator

(* Every step that moves the coordinator moves it forward: a command makes a *)
(* bounded number of steps, with faults, a crash and a recovery.             *)
THEOREM CommandGoesForward == Spec => CoordinatorAdvances
<1> DEFINE Forward ==
      \/ UNCHANGED main
      \/ ModeRank(main'.mode) > ModeRank(main.mode)
      \/ main'.mode = main.mode /\ PcRank(main'.pc) > PcRank(main.pc)
<1>1. SupervisionInv /\ EvidenceInv /\ [Next]_vars => [Forward]_vars
  <2> SUFFICES ASSUME SupervisionInv, EvidenceInv, [Next]_vars PROVE Forward
    OBVIOUS
  <2>a. TypeOK /\ main \in Coordinator
    BY DEF SupervisionInv, TypeOK
  <2>b. main.pc \in Launching \cup Supervised => main.mode = "run"
    BY DEF EvidenceInv
  <2>1. CASE CreateDraft \/ StartCampaign \/ WriteLock \/ AcquireLease \/ StartHeartbeat
    BY <2>a, <2>1 DEF CreateDraft, StartCampaign, WriteLock, AcquireLease, StartHeartbeat,
       At, Goto, Coordinator, PcRank
  <2>2. CASE \/ \E s \in Status, c \in {"OWN_CAUSE", PreLifecycle} : LifecycleEnds(s, c)
             \/ StopObserved \/ PollHeartbeat
    <3>1. main \in [pc : {main.pc}, mode : {main.mode}, status : {main.status},
                    cause : {main.cause}, seen : {main.seen}]
      BY <2>a DEF Coordinator
    <3>2. CASE \E s, c : At("running") /\ Ended(s, c)
      BY <3>1, <3>2 DEF Ended, At, PcRank
    <3>3. CASE PollHeartbeat
      BY <3>1, <3>3 DEF PollHeartbeat, At, PcRank
    <3> QED BY <2>2, <3>2, <3>3 DEF LifecycleEnds, StopObserved
  <2>3. CASE AcquireFails \/ Raise
    <3>1. FailTo("raised") /\ main.mode = "run" /\ PcRank(main.pc) < 14
      BY <2>b, <2>3 DEF AcquireFails, Raise, At, Launching, PcRank
    <3> QED BY <2>a, <3>1, FailToAdvances
  <2>4. CASE JoinHeartbeat
    <3>1. CASE FailTo("joined")
      <4>1. PcRank("joined") > PcRank(main.pc) /\ PcRank(main.pc) < 14
        BY <2>4 DEF JoinHeartbeat, At, PcRank
      <4> QED BY <2>a, <3>1, <4>1, FailToAdvances
    <3>2. CASE main'.pc = "joined" /\ main'.mode = main.mode
      BY <2>4, <3>2 DEF JoinHeartbeat, At, PcRank
    <3> QED BY <2>a, <2>4, <3>1, <3>2 DEF JoinHeartbeat, Coordinator
  <2>5. CASE JoinAfterFault \/ TerminalizeFails
    <3>1. main.pc = "raised" /\ main'.pc \in {"joined", "done"} /\ main'.mode = main.mode
      BY <2>a, <2>5 DEF JoinAfterFault, TerminalizeFails, At, Goto, Coordinator
    <3> QED BY <3>1 DEF PcRank
  <2>6. CASE CleanupCommit \/ CleanupReplay \/ Unlink \/ Finish \/ Reconcile \/ Report
    <3>1. main'.mode = main.mode
      BY <2>a, <2>6 DEF CleanupCommit, CleanupReplay, Unlink, Finish, Reconcile, Report,
         Goto, Coordinator
    <3>2. PcRank(main'.pc) > PcRank(main.pc)
      BY <2>a, <2>6 DEF CleanupCommit, CleanupReplay, Unlink, Finish, Reconcile, Report,
         At, Goto, Coordinator, PcRank
    <3> QED BY <3>1, <3>2
  <2>7. CASE CleanupFails \/ ReleaseFails
    <3>1. FailTo("cleaned") /\ main.pc \in {"joined", "committed", "unlinked"}
      BY <2>7 DEF CleanupFails, ReleaseFails, At
    <3>2. PcRank("cleaned") = 12 /\ PcRank("joined") = 9
          /\ PcRank("committed") = 10 /\ PcRank("unlinked") = 11
      BY DEF PcRank
    <3>3. PcRank(main.pc) \in 9..11
      BY <3>1, <3>2
    <3> QED BY <2>a, <3>1, <3>2, <3>3, FailToAdvances
  <2>8. CASE ReconcileFails
    <3>1. FailTo("reconciled") /\ main.pc = "cleaned"
      BY <2>8 DEF ReconcileFails, At
    <3>2. PcRank(main.pc) < 14 /\ PcRank("reconciled") > PcRank(main.pc)
      BY <3>1 DEF PcRank
    <3> QED BY <2>a, <3>1, <3>2, FailToAdvances
  <2>9. CASE Renew \/ RequestStop \/ ClockMoves \/ UNCHANGED vars
    BY <2>9 DEF Renew, HbRefused, HbRead, HbReplace, HbCommit, RequestStop, ClockMoves, vars
  <2>10. CASE Crash
    <3>1. main'.mode = main.mode /\ main'.pc = "dead"
          /\ main.pc \notin {"done", "dead", "abandoned"}
      BY <2>a, <2>10 DEF Crash, Goto, Coordinator
    <3> QED BY <2>a, <3>1 DEF PcRank, Coordinator
  <2>11. CASE RecoverOrphan
    <3>1. main.mode \in {"run", "fault"} /\ main'.mode = "recover"
      BY <2>a, <2>11 DEF RecoverOrphan, Coordinator
    <3> QED BY <3>1 DEF ModeRank
  <2> QED BY <2>1, <2>2, <2>3, <2>4, <2>5, <2>6, <2>7, <2>8, <2>9, <2>10, <2>11
       DEF Next, Lifecycle, Coordinate
<1>2. Init => EvidenceInv
  BY DEF Init, EvidenceInv, NoRow, Launching, Supervised
<1>3. SupervisionInv /\ EvidenceInv /\ [Next]_vars => EvidenceInv'
  BY EvidenceStepInv
<1> QED BY <1>1, <1>2, <1>3, SupervisionInvariant, PTL DEF Spec, CoordinatorAdvances
=============================================================================
