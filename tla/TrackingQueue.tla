---------------------------- MODULE TrackingQueue ----------------------------
(***************************************************************************)
(* printer_tracking_queue and the functions of lifecycle/tracking_queue.py *)
(* on it.  The rows of one exact token, pair and lane are a sequence in    *)
(* the order of their ids; only the last one says what the token is.       *)
(*                                                                         *)
(* Instants are numbers; None is a NULL timestamp.                         *)
(***************************************************************************)
EXTENDS Integers, Sequences

CONSTANT Cooldown  \* TRACKING_COOLDOWN_SECONDS

ASSUME CooldownAssumption == Cooldown \in Nat \ {0}

None == -1

\* QueueStatus; nothing under src/ writes ACTIVE or PAUSED.
LiveStatus     == {"QUEUED", "ACTIVE", "PAUSED"}
TerminalStatus == {"SKIPPED", "ARCHIVED"}
ActiveStatus   == LiveStatus \cup {"COOLDOWN"}
QueueStatus    == ActiveStatus \cup TerminalStatus

QueueRow(status, next, checked) ==
  [status |-> status, next_check_at |-> next, last_checked_at |-> checked]

Last(rows) == rows[Len(rows)]

(***************************************************************************)
(* A row from before next_check_at carried the expiry has one that is not  *)
(* after last_checked_at; its expiry is derived.                           *)
(***************************************************************************)
EffectiveCooldownExpiry(row) ==
  IF row.last_checked_at = None THEN None
  ELSE IF row.next_check_at > row.last_checked_at THEN row.next_check_at
  ELSE row.last_checked_at + Cooldown

\* mutants: a queued row is not looked at; a cooling row without the
\* comparison with the instant
HandoffAssessment_QueuedIsFree_Bug(rows, at) ==
  IF rows = << >> \/ Last(rows).status = "QUEUED" THEN "FRESH"
  ELSE IF Last(rows).status \in LiveStatus THEN "DUPLICATE_ACTIVE"
  ELSE IF Last(rows).status \in TerminalStatus THEN "TERMINAL"
  ELSE LET expiry == EffectiveCooldownExpiry(Last(rows))
       IN IF expiry # None /\ at >= expiry THEN "REQUALIFICATION" ELSE "COOLDOWN"

HandoffAssessment_AnyCooldown_Bug(rows, at) ==
  IF rows = << >> THEN "FRESH"
  ELSE IF Last(rows).status \in LiveStatus THEN "DUPLICATE_ACTIVE"
  ELSE IF Last(rows).status \in TerminalStatus THEN "TERMINAL"
  ELSE "REQUALIFICATION"

\* _handoff_assessment of the latest row at an instant.
HandoffAssessment(rows, at) ==
  IF rows = << >> THEN "FRESH"
  ELSE IF Last(rows).status \in LiveStatus THEN "DUPLICATE_ACTIVE"
  ELSE IF Last(rows).status \in TerminalStatus THEN "TERMINAL"
  ELSE LET expiry == EffectiveCooldownExpiry(Last(rows))
       IN IF expiry # None /\ at >= expiry THEN "REQUALIFICATION" ELSE "COOLDOWN"

HandoffEligible(rows, at) == HandoffAssessment(rows, at) \in {"FRESH", "REQUALIFICATION"}

(***************************************************************************)
(* claim_tracking_item: an expired cooldown wants fresh evidence as well.  *)
(* The claim appends; history is never rewritten by it.                    *)
(***************************************************************************)
Claimable(rows, at, fresh) ==
  \/ HandoffAssessment(rows, at) = "FRESH"
  \/ HandoffAssessment(rows, at) = "REQUALIFICATION" /\ fresh

ClaimTrackingItem(rows, at) == Append(rows, QueueRow("QUEUED", at, None))

(***************************************************************************)
(* The UPDATE of a row that has one of the statuses: a NULL expiry leaves  *)
(* next_check_at alone.                                                    *)
(***************************************************************************)
UpdateLast(rows, statuses, status, expiry, at) ==
  IF rows # << >> /\ Last(rows).status \in statuses \ {status}
  THEN [rows EXCEPT ![Len(rows)] =
          QueueRow(status, IF expiry = None THEN @.next_check_at ELSE expiry, at)]
  ELSE rows
=============================================================================
