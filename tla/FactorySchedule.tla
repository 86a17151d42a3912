--------------------------- MODULE FactorySchedule ---------------------------
(***************************************************************************)
(* When the steps of FactoryRun are due.  The plan of a token is anchored  *)
(* on evidence: the first window on the capture of its opening, the hour   *)
(* on the capture that closed the first window.  Two things FactoryRun and *)
(* the cadence contract take for granted are stated of these plans: that   *)
(* ORDER BY scheduled_for keeps the order Before, and that a plan carried  *)
(* out in time gives windows without a gap.                                *)
(***************************************************************************)
EXTENDS FactoryRun, SnapshotCadence

CONSTANTS Delays,   \* how late a capture may come
          LateSets  \* which captures of a window may be late together

ASSUME ScheduleAssumption == Delays \subseteq Nat

WindowSeconds       == 900 * Second
ContinuationSeconds == 2700 * Second

cadence_expected_snapshots(lane) == get_policy("WINDOW_15M", lane).required
continuation_expected_snapshots(lane) == get_policy("WINDOW_1H", lane).required

-----------------------------------------------------------------------------
\* The plans, as offsets from their anchors.

\* mutant: divided by the captures, not by the intervals between them
schedule_offset_Attempts_Bug(lane, i) ==
  (WindowSeconds * i) \div cadence_expected_snapshots(lane)

\* _schedule_offsets: the captures between opening and close.
schedule_offset(lane, i) ==
  (WindowSeconds * i) \div (cadence_expected_snapshots(lane) - 1)

continuation_offset(lane, i) ==
  (ContinuationSeconds * i) \div (continuation_expected_snapshots(lane) - 1)

\* Captures of the first window: opening, snapshots, close.
FirstDue(lane, i) ==
  IF i = cadence_expected_snapshots(lane) - 1 THEN WindowSeconds ELSE schedule_offset(lane, i)

HourDue(lane, i) ==
  IF i = continuation_expected_snapshots(lane) - 1 THEN ContinuationSeconds
  ELSE continuation_offset(lane, i)

(***************************************************************************)
(* What the plan of a token depends on: its lane, when its opening was     *)
(* captured, counted from the moment the openings were planned for, and    *)
(* how late the first window was closed.  _execute_close refuses a capture *)
(* before the window is over.                                              *)
(***************************************************************************)
Anchors == [lane : Lane, opened : Delays, late : Delays]

\* mutant: the hour anchored where the first window was
ClosedAt_Opening_Bug(anchors) == anchors.opened + anchors.late

ClosedAt(anchors) == anchors.opened + WindowSeconds + anchors.late

\* scheduled_for of the rows FactoryRun folds into one step.
Dues(anchors, kind) ==
  CASE kind = "OPENING" -> {0}
    [] kind = "SNAPSHOT" ->
         {anchors.opened + schedule_offset(anchors.lane, i) :
            i \in 1 .. cadence_expected_snapshots(anchors.lane) - 2}
    [] kind = "WINDOW_CLOSE" -> {anchors.opened + WindowSeconds}
    [] kind = "CONTINUATION_SNAPSHOT" ->
         {ClosedAt(anchors) + continuation_offset(anchors.lane, i) :
            i \in 0 .. continuation_expected_snapshots(anchors.lane) - 2}
    [] kind = "CONTINUATION_CLOSE" -> {ClosedAt(anchors) + ContinuationSeconds}

-----------------------------------------------------------------------------
\* Windows as they come out when capture i is late[i] behind its due time.

FirstCaptures(lane, late) ==
  [i \in 0 .. cadence_expected_snapshots(lane) - 1 |->
     IF i = 0 THEN 0 ELSE FirstDue(lane, i) + late[i]]

HourCaptures(lane, late) ==
  [i \in 0 .. continuation_expected_snapshots(lane) - 1 |-> HourDue(lane, i) + late[i]]

\* The first window is as long as its evidence.
FirstEnd(lane, late) == FirstCaptures(lane, late)[cadence_expected_snapshots(lane) - 1]

FirstCoverage(lane, late) ==
  evaluate_cadence_policy(FirstCaptures(lane, late), cadence_expected_snapshots(lane),
                          0, FirstEnd(lane, late), get_policy("WINDOW_15M", lane))

\* The hour is anchored to the close of the first window at both ends.
HourCoverage(lane, late) ==
  evaluate_cadence_policy(HourCaptures(lane, late), continuation_expected_snapshots(lane),
                          0, ContinuationSeconds, get_policy("WINDOW_1H", lane))

\* What the contract leaves a capture, beyond the interval of the plan.
Slack(kind, lane) ==
  LET policy == get_policy(kind, lane)
  IN  policy.clean - policy.length \div (policy.required - 1)

FirstWindowClean(lane, late) ==
  FirstCoverage(lane, late) = "PASS" /\ FirstEnd(lane, late) >= WindowSeconds

HourClean(lane, late) ==
  /\ HourCoverage(lane, late) = "PASS"
  /\ evaluate_transition_gap(0, HourCaptures(lane, late)[0], lane) = "CLEAN"

LateAt(count, S, delay) == [i \in 0 .. count - 1 |-> IF i \in S THEN delay ELSE 0]

-----------------------------------------------------------------------------
\* What a schedule says of every pair of steps, and of every on-time window.

InOrder(first, second) == \A due \in first, next \in second : due <= next

\* Of two tokens, whose anchors have nothing to do with each other, or of one.
DueInOrder(r, s) ==
  IF r[1] = s[1] THEN \A anchors \in Anchors : InOrder(Dues(anchors, r[2]), Dues(anchors, s[2]))
  ELSE InOrder(UNION {Dues(anchors, r[2]) : anchors \in Anchors},
               UNION {Dues(anchors, s[2]) : anchors \in Anchors})

FirstWindowsClean ==
  \A lane \in Lane : \A S \in LateSets : \A delay \in Delays :
    delay <= Slack("WINDOW_15M", lane)
      => FirstWindowClean(lane, LateAt(cadence_expected_snapshots(lane), S, delay))

HoursClean ==
  \A lane \in Lane : \A S \in LateSets : \A delay \in Delays :
    delay <= Slack("WINDOW_1H", lane)
      => HourClean(lane, LateAt(continuation_expected_snapshots(lane), S, delay))

Captured(S) == \A s \in S : steps[s] = "SUCCEEDED"

-----------------------------------------------------------------------------
(***************************************************************************)
(* What the loop has run, and what it takes first of what is pending, was  *)
(* due no later than the rows it leaves for later, whatever the lanes and  *)
(* however late the captures; rows due together are inserted in order.     *)
(* ORDER BY s.scheduled_for, s.id gives the order the barrier relies on    *)
(* only if _plan_anchored_jobs and _plan_continuation_jobs plan so.        *)
(***************************************************************************)
ScheduleKeepsOrder ==
  \A r \in InStatus(Step, "SUCCEEDED") \cup InStatus(Step, "PENDING") :
    \A s \in InStatus(Step, "PENDING") :
      Before(r, s) => DueInOrder(r, s)

(***************************************************************************)
(* A window all of whose captures the run has made, none behind its due    *)
(* time by more than the contract leaves beyond an interval, is clean, and *)
(* so is the transition to the hour: the factory's divisions, the required *)
(* counts and the thresholds fit together in both lanes.                   *)
(***************************************************************************)
PlannedWindowsAreClean ==
  \A t \in Token :
    /\ Captured(FirstWindow(t)) => FirstWindowsClean
    /\ Captured(Continuation(t)) => HoursClean
=============================================================================
