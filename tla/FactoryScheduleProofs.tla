------------------------ MODULE FactoryScheduleProofs ------------------------
(***************************************************************************)
(* Proofs about the schedules, for every number of tokens and however late *)
(* the captures are.  Neither result needs an invariant of the run: the    *)
(* order follows from an interval each kind of step is due in, cleanness   *)
(* from one fact about gaps: a series whose steps are shorter than a gap   *)
(* and which reaches the end of the window leaves no gap in it.            *)
(***************************************************************************)
EXTENDS FactorySchedule, TLAPS

Interval15(lane) == IF lane = "TRACK_FAST" THEN 2760 ELSE 5175
Interval1h(lane) == IF lane = "TRACK_FAST" THEN 5400 ELSE 10350
Last15(lane) == IF lane = "TRACK_FAST" THEN 15 ELSE 8
Last1h(lane) == IF lane = "TRACK_FAST" THEN 23 ELSE 12
Clean15(lane) == IF lane = "TRACK_FAST" THEN 4140 ELSE 8280
Clean1h(lane) == IF lane = "TRACK_FAST" THEN 8280 ELSE 16560
Slack15(lane) == IF lane = "TRACK_FAST" THEN 1380 ELSE 3105
Slack1h(lane) == IF lane = "TRACK_FAST" THEN 2880 ELSE 6210

-----------------------------------------------------------------------------
\* The numbers of the contract, in both lanes.

LEMMA Rows ==
  ASSUME NEW lane \in Lane
  PROVE  /\ get_policy("WINDOW_15M", lane) =
              [clean |-> Clean15(lane), blocked |-> IF lane = "TRACK_FAST" THEN 5520 ELSE 11040,
               length |-> 41400, required |-> Last15(lane) + 1]
         /\ get_policy("WINDOW_1H", lane) =
              [clean |-> Clean1h(lane), blocked |-> IF lane = "TRACK_FAST" THEN 11040 ELSE 22080,
               length |-> 124200, required |-> Last1h(lane) + 1]
<1>1. CASE lane = "TRACK_FAST"
  BY SMT, <1>1 DEF get_policy, Policy, Second, Clean15, Clean1h, Last15, Last1h
<1>2. CASE lane = "TRACK_NORMAL"
  BY SMT, <1>2 DEF get_policy, Policy, Second, Clean15, Clean1h, Last15, Last1h
<1> QED  BY SMT, <1>1, <1>2 DEF Lane

LEMMA Counts ==
  ASSUME NEW lane \in Lane
  PROVE  /\ cadence_expected_snapshots(lane) = Last15(lane) + 1
         /\ continuation_expected_snapshots(lane) = Last1h(lane) + 1
BY SMT, Rows DEF cadence_expected_snapshots, continuation_expected_snapshots

LEMMA Offsets ==
  ASSUME NEW lane \in Lane, NEW i \in Nat
  PROVE  /\ schedule_offset(lane, i) = Interval15(lane) * i
         /\ continuation_offset(lane, i) = Interval1h(lane) * i
<1>1. CASE lane = "TRACK_FAST"
  <2>1. /\ cadence_expected_snapshots(lane) = 16
        /\ continuation_expected_snapshots(lane) = 24
    BY SMT, <1>1, Counts DEF Last15, Last1h
  <2>2. (41400 * i) \div 15 = 2760 * i /\ (124200 * i) \div 23 = 5400 * i
    BY SMT
  <2> QED  BY SMT, <1>1, <2>1, <2>2 DEF schedule_offset, continuation_offset, WindowSeconds,
             ContinuationSeconds, Second, Interval15, Interval1h
<1>2. CASE lane = "TRACK_NORMAL"
  <2>1. /\ cadence_expected_snapshots(lane) = 9
        /\ continuation_expected_snapshots(lane) = 13
    BY SMT, <1>2, Counts DEF Last15, Last1h
  <2>2. (41400 * i) \div 8 = 5175 * i /\ (124200 * i) \div 12 = 10350 * i
    BY SMT
  <2> QED  BY SMT, <1>2, <2>1, <2>2 DEF schedule_offset, continuation_offset, WindowSeconds,
             ContinuationSeconds, Second, Interval15, Interval1h
<1> QED  BY SMT, <1>1, <1>2 DEF Lane

LEMMA Slacks ==
  ASSUME NEW lane \in Lane
  PROVE  /\ Slack("WINDOW_15M", lane) = Slack15(lane)
         /\ Slack("WINDOW_1H", lane) = Slack1h(lane)
<1>1. CASE lane = "TRACK_FAST"
  BY SMT, <1>1, Rows DEF Slack, Slack15, Slack1h, Clean15, Clean1h, Last15, Last1h
<1>2. CASE lane = "TRACK_NORMAL"
  BY SMT, <1>2, Rows DEF Slack, Slack15, Slack1h, Clean15, Clean1h, Last15, Last1h
<1> QED  BY SMT, <1>1, <1>2 DEF Lane

-----------------------------------------------------------------------------
\* Order: the interval the rows of a kind are due in.

Earliest(anchors, kind) ==
  CASE kind = "OPENING" -> 0
    [] kind = "SNAPSHOT" -> anchors.opened
    [] kind = "WINDOW_CLOSE" -> anchors.opened + 41400
    [] kind = "CONTINUATION_SNAPSHOT" -> anchors.opened + 41400 + anchors.late
    [] kind = "CONTINUATION_CLOSE" -> anchors.opened + 41400 + anchors.late + 124200

Latest(anchors, kind) ==
  CASE kind = "OPENING" -> 0
    [] kind = "SNAPSHOT" -> anchors.opened + 41400
    [] kind = "WINDOW_CLOSE" -> anchors.opened + 41400
    [] kind = "CONTINUATION_SNAPSHOT" -> anchors.opened + 41400 + anchors.late + 124200
    [] kind = "CONTINUATION_CLOSE" -> anchors.opened + 41400 + anchors.late + 124200

LEMMA AnchorTypes ==
  ASSUME NEW anchors \in Anchors
  PROVE  anchors.lane \in Lane /\ anchors.opened \in Nat /\ anchors.late \in Nat
BY ScheduleAssumption DEF Anchors

LEMMA OffsetsInWindow ==
  ASSUME NEW lane \in Lane, NEW i \in Nat
  PROVE  /\ i <= cadence_expected_snapshots(lane) - 2 =>
              schedule_offset(lane, i) \in Nat /\ schedule_offset(lane, i) <= 41400
         /\ i <= continuation_expected_snapshots(lane) - 2 =>
              continuation_offset(lane, i) \in Nat /\ continuation_offset(lane, i) <= 124200
<1>1. CASE lane = "TRACK_FAST"
  <2>1. /\ cadence_expected_snapshots(lane) = 16
        /\ continuation_expected_snapshots(lane) = 24
    BY <1>1, Counts DEF Last15, Last1h
  <2>2. schedule_offset(lane, i) = 2760 * i /\ continuation_offset(lane, i) = 5400 * i
    BY <1>1, Offsets DEF Interval15, Interval1h
  <2> QED  BY SMT, <2>1, <2>2
<1>2. CASE lane = "TRACK_NORMAL"
  <2>1. /\ cadence_expected_snapshots(lane) = 9
        /\ continuation_expected_snapshots(lane) = 13
    BY <1>2, Counts DEF Last15, Last1h
  <2>2. schedule_offset(lane, i) = 5175 * i /\ continuation_offset(lane, i) = 10350 * i
    BY <1>2, Offsets DEF Interval15, Interval1h
  <2> QED  BY SMT, <2>1, <2>2
<1> QED  BY <1>1, <1>2 DEF Lane

LEMMA DuesInInterval ==
  ASSUME NEW anchors \in Anchors, NEW kind \in StepKind, NEW due \in Dues(anchors, kind)
  PROVE  due \in Int /\ Earliest(anchors, kind) <= due /\ due <= Latest(anchors, kind)
<1> USE AnchorTypes
<1>0. WindowSeconds = 41400 /\ ContinuationSeconds = 124200
  BY SMT DEF WindowSeconds, ContinuationSeconds, Second
<1>1. CASE kind = "OPENING"
  BY SMT, <1>1 DEF Dues, Earliest, Latest
<1>2. CASE kind = "SNAPSHOT"
  <2>1. PICK i \in 1 .. cadence_expected_snapshots(anchors.lane) - 2 :
          due = anchors.opened + schedule_offset(anchors.lane, i)
    BY <1>2 DEF Dues
  <2>2. i \in Nat /\ i <= cadence_expected_snapshots(anchors.lane) - 2
    BY SMT, Counts DEF Last15
  <2>3. /\ schedule_offset(anchors.lane, i) \in Nat
        /\ schedule_offset(anchors.lane, i) <= 41400
    BY <2>2, OffsetsInWindow
  <2> QED  BY SMT, <1>2, <2>1, <2>3 DEF Earliest, Latest
<1>3. CASE kind = "WINDOW_CLOSE"
  BY SMT, <1>0, <1>3 DEF Dues, Earliest, Latest
<1>4. CASE kind = "CONTINUATION_SNAPSHOT"
  <2>1. PICK i \in 0 .. continuation_expected_snapshots(anchors.lane) - 2 :
          due = ClosedAt(anchors) + continuation_offset(anchors.lane, i)
    BY <1>4 DEF Dues
  <2>2. i \in Nat /\ i <= continuation_expected_snapshots(anchors.lane) - 2
    BY SMT, Counts DEF Last1h
  <2>3. /\ continuation_offset(anchors.lane, i) \in Nat
        /\ continuation_offset(anchors.lane, i) <= 124200
    BY <2>2, OffsetsInWindow
  <2> QED  BY SMT, <1>0, <1>4, <2>1, <2>3 DEF Earliest, Latest, ClosedAt
<1>5. CASE kind = "CONTINUATION_CLOSE"
  BY SMT, <1>0, <1>5 DEF Dues, Earliest, Latest, ClosedAt
<1> QED  BY <1>1, <1>2, <1>3, <1>4, <1>5 DEF StepKind

LEMMA LaterKindsAreLater ==
  ASSUME NEW anchors \in Anchors, NEW k \in StepKind, NEW l \in StepKind, Rank(k) < Rank(l)
  PROVE  Latest(anchors, k) <= Earliest(anchors, l)
BY SMT, AnchorTypes DEF StepKind, Rank, Earliest, Latest

LEMMA NeverNegative ==
  ASSUME NEW anchors \in Anchors, NEW kind \in StepKind, NEW due \in Dues(anchors, kind)
  PROVE  due >= 0
<1>1. Earliest(anchors, kind) \in Nat
  BY SMT, AnchorTypes DEF StepKind, Earliest
<1> QED  BY SMT, <1>1, DuesInInterval

LEMMA BeforeIsInOrder ==
  ASSUME NEW r \in Step, NEW s \in Step, Before(r, s)
  PROVE  DueInOrder(r, s)
<1>0. r[2] \in StepKind /\ s[2] \in StepKind
  BY SMT DEF Step
<1>1. CASE r[1] = s[1]
  <2>1. CASE Rank(r[2]) < Rank(s[2])
    <3> SUFFICES ASSUME NEW anchors \in Anchors,
                        NEW due \in Dues(anchors, r[2]), NEW next \in Dues(anchors, s[2])
                 PROVE  due <= next
      BY SMT, <1>1 DEF DueInOrder, InOrder
    <3>1. Latest(anchors, r[2]) <= Earliest(anchors, s[2])
      BY SMT, <1>0, <2>1, LaterKindsAreLater
    <3>2. Latest(anchors, r[2]) \in Int /\ Earliest(anchors, s[2]) \in Int
      BY SMT, <1>0, AnchorTypes DEF StepKind, Latest, Earliest
    <3> QED  BY SMT, <1>0, <3>1, <3>2, DuesInInterval
  <2>2. CASE ~(Rank(r[2]) < Rank(s[2]))
    <3>1. r[2] = "OPENING" /\ s[2] # "OPENING"
      BY SMT, <1>1, <2>2 DEF Before, Step, Token
    <3> QED  BY SMT, <1>0, <2>2, <3>1 DEF Rank, StepKind
  <2> QED  BY SMT, <2>1, <2>2
<1>2. CASE r[1] # s[1]
  <2>1. r[2] = "OPENING"
    BY SMT, <1>2 DEF Before
  <2> SUFFICES ASSUME NEW due \in UNION {Dues(anchors, r[2]) : anchors \in Anchors},
                      NEW next \in UNION {Dues(anchors, s[2]) : anchors \in Anchors}
               PROVE  due <= next
    BY SMT, <1>2 DEF DueInOrder, InOrder
  <2>2. due = 0
    BY SMT, <2>1 DEF Dues
  <2>3. PICK anchors \in Anchors : next \in Dues(anchors, s[2])
    OBVIOUS
  <2> QED  BY SMT, <1>0, <2>2, <2>3, NeverNegative
<1> QED  BY SMT, <1>1, <1>2

(***************************************************************************)
(* What the loop has run or takes first was due no later than what it      *)
(* leaves for later (ORDER BY s.scheduled_for, s.id), for every number of  *)
(* tokens and any delays.                                                  *)
(***************************************************************************)
THEOREM OrderIsKept == Spec => []ScheduleKeepsOrder
<1>1. ScheduleKeepsOrder
  BY BeforeIsInOrder DEF ScheduleKeepsOrder, InStatus
<1> QED  BY <1>1, PTL

-----------------------------------------------------------------------------
\* Cleanness: a series of captures that reaches the end without a long step.

Spaced(captures, last, gap) ==
  /\ captures[0] <= gap
  /\ \A i \in 0 .. last - 1 :
       captures[i] < captures[i + 1] /\ captures[i + 1] <= captures[i] + gap

LEMMA SpacedHasNoGap ==
  ASSUME NEW last \in Nat, NEW captures \in [0 .. last -> Nat],
         NEW end \in Nat, NEW gap \in Nat, end > 0, captures[last] >= end,
         Spaced(captures, last, gap)
  PROVE  NoGapAbove(Boundaries(captures, last + 1, 0, end), end, gap)
<1> DEFINE B == Boundaries(captures, last + 1, 0, end)
           C(i) == Clamp(captures[i], 0, end)
<1>1. \A i \in 0 .. last : C(i) \in B
  BY DEF Boundaries
<1>2. \A i \in 0 .. last : captures[i] \in Nat
  OBVIOUS
<1>3. \A i \in 0 .. last : C(i) = IF captures[i] > end THEN end ELSE captures[i]
  BY <1>2 DEF Clamp
<1>4. ASSUME NEW i \in 0 .. last, C(i) # end
      PROVE  \E y \in B : C(i) < y /\ y <= C(i) + gap
  <2>1. captures[i] < end /\ C(i) = captures[i]
    BY <1>2, <1>3, <1>4
  <2>2. i \in 0 .. last - 1 /\ i + 1 \in 0 .. last
    BY <2>1, <1>2
  <2>3. captures[i] < captures[i + 1] /\ captures[i + 1] <= captures[i] + gap
    BY <2>2 DEF Spaced
  <2>4. C(i + 1) = IF captures[i + 1] > end THEN end ELSE captures[i + 1]
    BY <1>3, <2>2
  <2>5. captures[i] < C(i + 1) /\ C(i + 1) <= captures[i] + gap
    BY <1>2, <2>1, <2>2, <2>3, <2>4
  <2> QED  BY <1>1, <2>1, <2>2, <2>5
<1>5. \E y \in B : 0 < y /\ y <= 0 + gap
  <2>1. CASE captures[0] = 0
    <3>1. C(0) = 0 /\ C(0) # end
      BY <1>3, <2>1
    <3> QED  BY <1>4, <3>1
  <2>2. CASE captures[0] # 0
    <3>1. captures[0] > 0 /\ captures[0] <= gap
      BY <1>2, <2>2 DEF Spaced
    <3>2. C(0) > 0 /\ C(0) <= gap /\ C(0) \in B
      BY <1>1, <1>2, <1>3, <3>1
    <3> QED  BY <3>2
  <2> QED  BY <2>1, <2>2
<1>6. SUFFICES ASSUME NEW x \in B, x # end
               PROVE  \E y \in B : x < y /\ y <= x + gap
  BY DEF NoGapAbove
<1>7. CASE x = 0
  BY <1>5, <1>7
<1>8. CASE x # 0
  <2>1. PICK i \in 0 .. last : x = C(i)
    BY <1>6, <1>8 DEF Boundaries
  <2> QED  BY <1>4, <1>6, <2>1
<1> QED  BY <1>7, <1>8

LEMMA WiderGap ==
  ASSUME NEW boundaries \in SUBSET Int, NEW end, NEW gap \in Nat, NEW wider \in Nat,
         gap <= wider, NoGapAbove(boundaries, end, gap)
  PROVE  NoGapAbove(boundaries, end, wider)
BY DEF NoGapAbove

LEMMA SpacedPasses ==
  ASSUME NEW last \in Nat, NEW captures \in [0 .. last -> Nat], NEW end \in Nat,
         NEW policy, policy.clean \in Nat, policy.blocked \in Nat,
         policy.clean <= policy.blocked, policy.required = last + 1,
         last >= 1, end > 0, captures[last] >= end, Spaced(captures, last, policy.clean)
  PROVE  evaluate_cadence_policy(captures, last + 1, 0, end, policy) = "PASS"
<1> DEFINE B == Boundaries(captures, last + 1, 0, end)
<1>1. NoGapAbove(B, end, policy.clean)
  BY SpacedHasNoGap
<1>2. B \in SUBSET Int
  BY DEF Boundaries, Clamp
<1>3. NoGapAbove(B, end, policy.blocked)
  BY <1>1, <1>2, WiderGap
<1> QED  BY <1>1, <1>3 DEF evaluate_cadence_policy

-----------------------------------------------------------------------------
\* The two windows of a lane, each capture late by what the contract leaves.

LEMMA Numbers ==
  ASSUME NEW lane \in Lane
  PROVE  /\ Interval15(lane) \in Nat /\ Slack15(lane) \in Nat /\ Last15(lane) \in Nat
         /\ Interval1h(lane) \in Nat /\ Slack1h(lane) \in Nat /\ Last1h(lane) \in Nat
         /\ Slack15(lane) < Interval15(lane) /\ Slack1h(lane) < Interval1h(lane)
         /\ Interval15(lane) + Slack15(lane) = Clean15(lane)
         /\ Interval1h(lane) + Slack1h(lane) = Clean1h(lane)
         /\ Last15(lane) >= 1 /\ Interval15(lane) * Last15(lane) = 41400
         /\ Last1h(lane) >= 1 /\ Interval1h(lane) * Last1h(lane) = 124200
<1>1. CASE lane = "TRACK_FAST"
  BY SMT, <1>1 DEF Interval15, Interval1h, Slack15, Slack1h, Clean15, Clean1h, Last15, Last1h
<1>2. CASE lane = "TRACK_NORMAL"
  BY SMT, <1>2 DEF Interval15, Interval1h, Slack15, Slack1h, Clean15, Clean1h, Last15, Last1h
<1> QED  BY <1>1, <1>2 DEF Lane

LEMMA NextIsLater ==
  ASSUME NEW due \in Nat, NEW interval \in Nat, NEW slack \in Nat, slack < interval,
         NEW a \in Nat, NEW b \in Nat, a <= slack, b <= slack
  PROVE  /\ due + a < due + interval + b
         /\ due + interval + b <= due + a + (interval + slack)
OBVIOUS

\* An evenly spaced plan, each capture behind by at most slack.
LEMMA LateSeries ==
  ASSUME NEW last \in Nat, NEW interval \in Nat, NEW slack \in Nat, slack < interval,
         NEW late \in [0 .. last -> 0 .. slack],
         NEW captures \in [0 .. last -> Nat], captures[0] <= slack, captures[0] <= late[0],
         \A i \in 1 .. last : captures[i] = interval * i + late[i]
  PROVE  /\ Spaced(captures, last, interval + slack)
         /\ last >= 1 => captures[last] >= interval * last
<1>1. \A i \in 0 .. last : late[i] \in Nat /\ late[i] <= slack /\ captures[i] \in Nat
  OBVIOUS
<1>2. ASSUME NEW i \in 0 .. last - 1
      PROVE  captures[i] < captures[i + 1] /\ captures[i + 1] <= captures[i] + (interval + slack)
  <2>1. i \in Nat /\ i + 1 \in 1 .. last /\ i + 1 \in 0 .. last /\ i \in 0 .. last
    OBVIOUS
  <2>2. captures[i + 1] = interval * (i + 1) + late[i + 1]
    BY <2>1
  <2>3. interval * (i + 1) = interval * i + interval /\ interval * i \in Nat
    BY <2>1
  <2>4. CASE i = 0
    <3>1. interval * i = 0
      BY <2>4
    <3> QED  BY <1>1, <2>1, <2>2, <2>3, <2>4, <3>1
  <2>5. CASE i # 0
    <3>0. i \in 1 .. last
      BY <2>1, <2>5
    <3>1. captures[i] = interval * i + late[i]
      BY <3>0
    <3>2. /\ late[i] \in Nat /\ late[i + 1] \in Nat
          /\ late[i] <= slack /\ late[i + 1] <= slack
      BY <1>1, <2>1
    <3> DEFINE due == interval * i
    <3>3. due \in Nat /\ captures[i] = due + late[i] /\ captures[i + 1] = due + interval + late[i + 1]
      BY <2>2, <2>3, <3>1
    <3> HIDE DEF due
    <3>4. due + late[i] < due + interval + late[i + 1]
      BY <3>2, <3>3, NextIsLater
    <3>5. due + interval + late[i + 1] <= due + late[i] + (interval + slack)
      BY <3>2, <3>3, NextIsLater
    <3> QED  BY Zenon, <3>3, <3>4, <3>5
  <2> QED  BY <2>4, <2>5
<1>3. Spaced(captures, last, interval + slack)
  BY <1>1, <1>2 DEF Spaced
<1>4. ASSUME last >= 1 PROVE captures[last] >= interval * last
  <2>1. last \in 1 .. last /\ last \in 0 .. last /\ interval * last \in Nat
    BY <1>4
  <2> QED  BY <1>1, <2>1
<1> QED  BY <1>3, <1>4

LEMMA FirstWindowOnTime ==
  ASSUME NEW lane \in Lane, NEW late \in [0 .. Last15(lane) -> 0 .. Slack15(lane)]
  PROVE  FirstWindowClean(lane, late)
<1> DEFINE last == Last15(lane)
           captures == FirstCaptures(lane, late)
           policy == get_policy("WINDOW_15M", lane)
<1>0. cadence_expected_snapshots(lane) = last + 1 /\ cadence_expected_snapshots(lane) - 1 = last
  BY Counts, Numbers
<1>1. WindowSeconds = 41400
  BY SMT DEF WindowSeconds, Second
<1>2. \A i \in 0 .. last : FirstDue(lane, i) = Interval15(lane) * i
  BY <1>0, <1>1, Numbers, Offsets DEF FirstDue
<1>3. captures = [i \in 0 .. last |-> IF i = 0 THEN 0 ELSE FirstDue(lane, i) + late[i]]
  BY <1>0 DEF FirstCaptures
<1>4. \A i \in 0 .. last : Interval15(lane) * i \in Nat /\ late[i] \in 0 .. Slack15(lane)
  BY Numbers
<1>5. captures \in [0 .. last -> Nat]
  <2>1. \A i \in 0 .. last : (IF i = 0 THEN 0 ELSE FirstDue(lane, i) + late[i]) \in Nat
    <3> SUFFICES ASSUME NEW i \in 0 .. last PROVE FirstDue(lane, i) + late[i] \in Nat
      OBVIOUS
    <3>1. FirstDue(lane, i) \in Nat /\ late[i] \in Nat
      BY <1>2, <1>4, Numbers
    <3> QED  BY <3>1
  <2> QED  BY <1>3, <2>1
<1>6. captures[0] = 0 /\ \A i \in 1 .. last : captures[i] = Interval15(lane) * i + late[i]
  BY <1>2, <1>3, Numbers
<1>7. captures[0] <= Slack15(lane) /\ captures[0] <= late[0]
  BY <1>4, <1>6, Numbers
<1> HIDE DEF captures, last
<1>8. last \in Nat /\ last >= 1 /\ late \in [0 .. last -> 0 .. Slack15(lane)]
  BY Numbers DEF last
<1>9. /\ Spaced(captures, last, Interval15(lane) + Slack15(lane))
      /\ captures[last] >= Interval15(lane) * last
  <2> DEFINE interval == Interval15(lane)
             slack == Slack15(lane)
  <2>1. interval \in Nat /\ slack \in Nat /\ slack < interval
    BY Numbers
  <2>2. \A i \in 1 .. last : captures[i] = interval * i + late[i]
    BY <1>6
  <2>3. captures[0] <= slack /\ captures[0] <= late[0] /\ late \in [0 .. last -> 0 .. slack]
    BY <1>7, <1>8
  <2> HIDE DEF interval, slack
  <2>4. Spaced(captures, last, interval + slack) /\ captures[last] >= interval * last
    BY <1>5, <1>8, <2>1, <2>2, <2>3, LateSeries
  <2> QED  BY <2>4 DEF interval, slack
<1>10. captures[last] >= 41400 /\ captures[last] \in Nat
  BY <1>5, <1>8, <1>9, Numbers DEF last
<1>11. /\ policy.clean = Clean15(lane) /\ policy.blocked \in Nat
       /\ policy.clean \in Nat /\ policy.clean <= policy.blocked
       /\ policy.required = last + 1
  BY SMT, Rows DEF Clean15, last
<1>12. evaluate_cadence_policy(captures, last + 1, 0, captures[last], policy) = "PASS"
  <2>1. Spaced(captures, last, policy.clean)
    BY <1>9, <1>11, Numbers
  <2> DEFINE end == captures[last]
  <2>2. end \in Nat /\ end > 0 /\ captures[last] >= end
    BY <1>10
  <2> HIDE DEF policy, end
  <2>3. evaluate_cadence_policy(captures, last + 1, 0, end, policy) = "PASS"
    BY <1>5, <1>8, <1>11, <2>1, <2>2, SpacedPasses
  <2> QED  BY <2>3 DEF end
<1> QED  BY <1>0, <1>1, <1>10, <1>12 DEF FirstWindowClean, FirstCoverage, FirstEnd, captures

LEMMA HourOnTime ==
  ASSUME NEW lane \in Lane, NEW late \in [0 .. Last1h(lane) -> 0 .. Slack1h(lane)]
  PROVE  HourClean(lane, late)
<1> DEFINE last == Last1h(lane)
           captures == HourCaptures(lane, late)
           policy == get_policy("WINDOW_1H", lane)
<1>0. /\ continuation_expected_snapshots(lane) = last + 1
      /\ continuation_expected_snapshots(lane) - 1 = last
  BY Counts, Numbers
<1>1. ContinuationSeconds = 124200
  BY SMT DEF ContinuationSeconds, Second
<1>2. \A i \in 0 .. last : HourDue(lane, i) = Interval1h(lane) * i
  BY <1>0, <1>1, Numbers, Offsets DEF HourDue
<1>3. captures = [i \in 0 .. last |-> HourDue(lane, i) + late[i]]
  BY <1>0 DEF HourCaptures
<1>4. \A i \in 0 .. last : Interval1h(lane) * i \in Nat /\ late[i] \in 0 .. Slack1h(lane)
  BY Numbers
<1>5. captures \in [0 .. last -> Nat]
  <2>1. \A i \in 0 .. last : HourDue(lane, i) + late[i] \in Nat
    <3> SUFFICES ASSUME NEW i \in 0 .. last PROVE HourDue(lane, i) + late[i] \in Nat
      OBVIOUS
    <3>1. HourDue(lane, i) \in Nat /\ late[i] \in Nat
      BY <1>2, <1>4, Numbers
    <3> QED  BY <3>1
  <2> QED  BY <1>3, <2>1
<1>6. captures[0] = late[0] /\ \A i \in 1 .. last : captures[i] = Interval1h(lane) * i + late[i]
  BY <1>2, <1>3, <1>4, Numbers
<1>7. captures[0] <= Slack1h(lane) /\ captures[0] <= late[0] /\ captures[0] \in Nat
  BY <1>4, <1>6, Numbers
<1> HIDE DEF captures, last
<1>8. last \in Nat /\ last >= 1 /\ late \in [0 .. last -> 0 .. Slack1h(lane)]
  BY Numbers DEF last
<1>9. /\ Spaced(captures, last, Interval1h(lane) + Slack1h(lane))
      /\ captures[last] >= Interval1h(lane) * last
  <2> DEFINE interval == Interval1h(lane)
             slack == Slack1h(lane)
  <2>1. interval \in Nat /\ slack \in Nat /\ slack < interval
    BY Numbers
  <2>2. \A i \in 1 .. last : captures[i] = interval * i + late[i]
    BY <1>6
  <2>3. captures[0] <= slack /\ captures[0] <= late[0] /\ late \in [0 .. last -> 0 .. slack]
    BY <1>7, <1>8
  <2> HIDE DEF interval, slack
  <2>4. Spaced(captures, last, interval + slack) /\ captures[last] >= interval * last
    BY <1>5, <1>8, <2>1, <2>2, <2>3, LateSeries
  <2> QED  BY <2>4 DEF interval, slack
<1>10. captures[last] >= 124200
  BY <1>9, Numbers DEF last
<1>11. /\ policy.clean = Clean1h(lane) /\ policy.blocked \in Nat
       /\ policy.clean \in Nat /\ policy.clean <= policy.blocked
       /\ policy.required = last + 1
  BY SMT, Rows DEF Clean1h, last
<1>12. evaluate_cadence_policy(captures, last + 1, 0, 124200, policy) = "PASS"
  <2>1. Spaced(captures, last, policy.clean)
    BY <1>9, <1>11, Numbers
  <2> DEFINE end == 124200
  <2>2. end \in Nat /\ end > 0 /\ captures[last] >= end
    BY <1>10
  <2> HIDE DEF policy, end
  <2>3. evaluate_cadence_policy(captures, last + 1, 0, end, policy) = "PASS"
    BY <1>5, <1>8, <1>11, <2>1, <2>2, SpacedPasses
  <2> QED  BY <2>3 DEF end
<1>13. evaluate_transition_gap(0, captures[0], lane) = "CLEAN"
  BY SMT, <1>7 DEF evaluate_transition_gap, Second, Slack1h
<1> QED  BY <1>0, <1>1, <1>12, <1>13 DEF HourClean, HourCoverage, captures

LEMMA LateAtIsLate ==
  ASSUME NEW last \in Nat, NEW S, NEW delay \in Nat, NEW slack \in Nat, delay <= slack
  PROVE  LateAt(last + 1, S, delay) \in [0 .. last -> 0 .. slack]
BY DEF LateAt

(***************************************************************************)
(* Windows captured within the slack of the contract are clean, for every  *)
(* number of tokens, any delays and any choice of late captures            *)
(* (_schedule_offsets, _plan_continuation_jobs, _POLICIES, _TRANSITION).   *)
(***************************************************************************)
THEOREM PlansAreClean == Spec => []PlannedWindowsAreClean
<1>1. FirstWindowsClean
  <2> SUFFICES ASSUME NEW lane \in Lane, NEW S \in LateSets, NEW delay \in Delays,
                      delay <= Slack("WINDOW_15M", lane)
               PROVE  FirstWindowClean(lane, LateAt(cadence_expected_snapshots(lane), S, delay))
    BY DEF FirstWindowsClean
  <2>1. delay \in Nat /\ delay <= Slack15(lane) /\ Slack15(lane) \in Nat /\ Last15(lane) \in Nat
    BY ScheduleAssumption, Slacks, Numbers
  <2>2. LateAt(Last15(lane) + 1, S, delay) \in [0 .. Last15(lane) -> 0 .. Slack15(lane)]
    BY <2>1, LateAtIsLate
  <2> QED  BY <2>2, Counts, FirstWindowOnTime
<1>2. HoursClean
  <2> SUFFICES ASSUME NEW lane \in Lane, NEW S \in LateSets, NEW delay \in Delays,
                      delay <= Slack("WINDOW_1H", lane)
               PROVE  HourClean(lane, LateAt(continuation_expected_snapshots(lane), S, delay))
    BY DEF HoursClean
  <2>1. delay \in Nat /\ delay <= Slack1h(lane) /\ Slack1h(lane) \in Nat /\ Last1h(lane) \in Nat
    BY ScheduleAssumption, Slacks, Numbers
  <2>2. LateAt(Last1h(lane) + 1, S, delay) \in [0 .. Last1h(lane) -> 0 .. Slack1h(lane)]
    BY <2>1, LateAtIsLate
  <2> QED  BY <2>2, Counts, HourOnTime
<1>3. PlannedWindowsAreClean
  BY <1>1, <1>2 DEF PlannedWindowsAreClean
<1> QED  BY <1>3, PTL
=============================================================================
