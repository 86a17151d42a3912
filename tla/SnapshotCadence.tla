--------------------------- MODULE SnapshotCadence ---------------------------
(***************************************************************************)
(* The cadence contract of snapshots (cadence_policy.py) for the two       *)
(* windows the campaign collects: what a lane requires of a window, how    *)
(* its coverage is judged, and how the step from one window to the next.   *)
(* Captures are a function on 0 .. count - 1.  Time is counted in parts of *)
(* a second, 46 of them, in which every planned offset is whole: a window  *)
(* is divided into 15, 8, 23 or 12 intervals, of 60, 112 1/2, 117 9/23 or  *)
(* 225 seconds.                                                            *)
(***************************************************************************)
EXTENDS Integers

Second == 46

Lane == {"TRACK_FAST", "TRACK_NORMAL"}
WindowKind == {"WINDOW_15M", "WINDOW_1H"}

Policy(clean, blocked, length, required) ==
  [clean |-> clean * Second, blocked |-> blocked * Second,
   length |-> length * Second, required |-> required]

\* _POLICIES: gaps and lengths in seconds, and the captures required.
get_policy(kind, lane) ==
  CASE kind = "WINDOW_15M" /\ lane = "TRACK_FAST"   -> Policy( 90, 120,  900, 16)
    [] kind = "WINDOW_15M" /\ lane = "TRACK_NORMAL" -> Policy(180, 240,  900,  9)
    [] kind = "WINDOW_1H"  /\ lane = "TRACK_FAST"   -> Policy(180, 240, 2700, 24)
    [] kind = "WINDOW_1H"  /\ lane = "TRACK_NORMAL" -> Policy(360, 480, 2700, 13)

(***************************************************************************)
(* The gap series runs over the window's ends and the captures between     *)
(* them; one outside counts at the nearer end.                             *)
(***************************************************************************)
Clamp(time, start, end) == IF time < start THEN start ELSE IF time > end THEN end ELSE time

Boundaries(captures, count, start, end) ==
  {start, end} \cup {Clamp(captures[i], start, end) : i \in 0 .. count - 1}

\* max(gaps) <= gap: every boundary but the last is followed soon enough.
NoGapAbove(boundaries, end, gap) ==
  \A x \in boundaries : x = end \/ \E y \in boundaries : x < y /\ y <= x + gap

\* In production mode no capture at all blocks, as one alone does.
evaluate_cadence_policy(captures, count, start, end, policy) ==
  LET boundaries == Boundaries(captures, count, start, end)
  IN  IF count < 2 \/ ~NoGapAbove(boundaries, end, policy.blocked) THEN "BLOCKED"
      ELSE IF ~NoGapAbove(boundaries, end, policy.clean) \/ count < policy.required THEN "DIRTY"
      ELSE "PASS"

\* From the closing capture of one window to the first capture of the next.
evaluate_transition_gap(close, first, lane) ==
  LET dirty == IF lane = "TRACK_FAST" THEN 180 * Second ELSE 360 * Second
      block == IF lane = "TRACK_FAST" THEN 240 * Second ELSE 480 * Second
  IN  IF first < close \/ first - close > block THEN "BLOCKED"
      ELSE IF first - close > dirty THEN "DIRTY"
      ELSE "CLEAN"
=============================================================================
