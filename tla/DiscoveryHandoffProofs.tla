----------------------- MODULE DiscoveryHandoffProofs -----------------------
(***************************************************************************)
(* Theorems about DiscoveryHandoff, for every set of tokens, every history *)
(* the initial states allow, every cooldown and any number of campaigns,   *)
(* faults and crashes.                                                     *)
(***************************************************************************)
EXTENDS DiscoveryHandoff, TLAPS

-----------------------------------------------------------------------------
(* Rows of one token *)

Row == [status : QueueStatus, next_check_at : Nat \cup {None}, last_checked_at : Nat \cup {None}]

(* Nothing here writes ACTIVE, PAUSED or ARCHIVED; only the last row may be  *)
(* queued.                                                                   *)
RowsOK(rows) ==
  \A n \in DOMAIN rows :
    /\ rows[n].status \in {"QUEUED", "COOLDOWN", "SKIPPED"}
    /\ rows[n].status = "QUEUED" => n = Len(rows)

Owned(rows) == rows # << >> /\ Last(rows).status = "QUEUED"

(* A claim appends one queued row.                                           *)
LEMMA ClaimFacts ==
  ASSUME NEW rows \in Seq(Row), NEW a \in Nat
  PROVE  /\ ClaimTrackingItem(rows, a) \in Seq(Row)
         /\ ClaimTrackingItem(rows, a) # << >>
         /\ Len(ClaimTrackingItem(rows, a)) = Len(rows) + 1
         /\ Last(ClaimTrackingItem(rows, a)) = QueueRow("QUEUED", a, None)
         /\ Owned(ClaimTrackingItem(rows, a))
         /\ \A n \in 1 .. Len(rows) : ClaimTrackingItem(rows, a)[n] = rows[n]
<1> DEFINE row == QueueRow("QUEUED", a, None)
<1>1. row \in Row /\ row.status = "QUEUED"
  BY DEF QueueRow, Row, QueueStatus, ActiveStatus, LiveStatus
<1>2. ClaimTrackingItem(rows, a) = Append(rows, row)
  BY DEF ClaimTrackingItem
<1> HIDE DEF row
<1>3. /\ Append(rows, row) \in Seq(Row) /\ Len(Append(rows, row)) = Len(rows) + 1
      /\ Append(rows, row)[Len(rows) + 1] = row
      /\ \A n \in 1 .. Len(rows) : Append(rows, row)[n] = rows[n]
  BY <1>1
<1>4. Append(rows, row) # << >>
  BY <1>3
<1> QED BY <1>1, <1>2, <1>3, <1>4 DEF Last, Owned, row

(* A token that may be handed off has no queued row; claiming it leaves one. *)
LEMMA ClaimKeepsRowsOK ==
  ASSUME NEW rows \in Seq(Row), NEW a \in Nat, RowsOK(rows), ~Owned(rows)
  PROVE  RowsOK(ClaimTrackingItem(rows, a))
<1> DEFINE new == ClaimTrackingItem(rows, a)
<1>1. /\ new \in Seq(Row) /\ Len(new) = Len(rows) + 1
      /\ Last(new) = QueueRow("QUEUED", a, None)
      /\ \A n \in 1 .. Len(rows) : new[n] = rows[n]
  BY ClaimFacts
<1>2. Last(new).status = "QUEUED"
  BY <1>1 DEF QueueRow
<1>3. \A n \in 1 .. Len(rows) : rows[n].status \in {"COOLDOWN", "SKIPPED"}
  <2> SUFFICES ASSUME NEW n \in 1 .. Len(rows)
               PROVE  rows[n].status \in {"COOLDOWN", "SKIPPED"}
    OBVIOUS
  <2>1. n \in DOMAIN rows /\ rows # << >>
    OBVIOUS
  <2> QED BY <2>1 DEF RowsOK, Owned, Last
<1> HIDE DEF new
<1> SUFFICES ASSUME NEW n \in DOMAIN new
             PROVE  /\ new[n].status \in {"QUEUED", "COOLDOWN", "SKIPPED"}
                    /\ new[n].status = "QUEUED" => n = Len(new)
  BY DEF RowsOK, new
<1>4. n \in 1 .. Len(rows) \/ n = Len(new)
  BY <1>1
<1> QED BY <1>1, <1>2, <1>3, <1>4 DEF Last

(* Of a token that has its rows in order, only the last is live.             *)
LEMMA LiveRows ==
  ASSUME NEW rows \in Seq(Row), RowsOK(rows)
  PROVE  /\ Live(rows) \subseteq {Len(rows)}
         /\ ~Owned(rows) => Live(rows) = {}
<1>1. \A n \in DOMAIN rows : rows[n].status \in LiveStatus => rows[n].status = "QUEUED"
  BY DEF RowsOK, LiveStatus
<1> QED BY <1>1 DEF RowsOK, Live, Owned, Last

(* An eligible token is not owned.                                           *)
LEMMA EligibleIsFree ==
  ASSUME NEW rows \in Seq(Row), NEW a \in Nat, HandoffEligible(rows, a)
  PROVE  ~Owned(rows)
BY DEF HandoffEligible, HandoffAssessment, Owned, LiveStatus

(* An update writes the last row, or nothing.                                *)
Applies(rows, S, status) == rows # << >> /\ Last(rows).status \in S \ {status}

LEMMA UpdateFacts ==
  ASSUME NEW rows \in Seq(Row), NEW S, NEW status \in QueueStatus,
         NEW expiry \in Nat \cup {None}, NEW a \in Nat
  PROVE  /\ UpdateLast(rows, S, status, expiry, a) \in Seq(Row)
         /\ Len(UpdateLast(rows, S, status, expiry, a)) = Len(rows)
         /\ \A n \in 1 .. Len(rows) : n # Len(rows) =>
              UpdateLast(rows, S, status, expiry, a)[n] = rows[n]
         /\ Applies(rows, S, status) =>
              Last(UpdateLast(rows, S, status, expiry, a)) =
                QueueRow(status, IF expiry = None THEN Last(rows).next_check_at ELSE expiry, a)
         /\ ~Applies(rows, S, status) => UpdateLast(rows, S, status, expiry, a) = rows
<1> DEFINE new == UpdateLast(rows, S, status, expiry, a)
           row == QueueRow(status, IF expiry = None THEN Last(rows).next_check_at
                                                    ELSE expiry, a)
<1>1. CASE ~Applies(rows, S, status)
  BY <1>1 DEF UpdateLast, Applies
<1>2. CASE Applies(rows, S, status)
  <2>1. Len(rows) \in 1 .. Len(rows) /\ rows[Len(rows)] \in Row
    BY <1>2 DEF Applies
  <2>2. row \in Row
    BY <2>1 DEF QueueRow, Row, Last
  <2>3. new = [rows EXCEPT ![Len(rows)] = row]
    BY <1>2 DEF UpdateLast, Last, Applies
  <2>4. new \in Seq(Row) /\ Len(new) = Len(rows) /\ new[Len(rows)] = row
        /\ \A n \in 1 .. Len(rows) : n # Len(rows) => new[n] = rows[n]
    <3> HIDE DEF row, new
    <3> QED BY <2>1, <2>2, <2>3
  <2> QED BY <1>2, <2>4 DEF Last
<1> QED BY <1>1, <1>2

(* A token that is let go has no queued row left.                            *)
LEMMA UpdateKeepsRowsOK ==
  ASSUME NEW rows \in Seq(Row), NEW S, NEW status \in {"COOLDOWN", "SKIPPED"},
         NEW expiry \in Nat \cup {None}, NEW a \in Nat, RowsOK(rows)
  PROVE  /\ RowsOK(UpdateLast(rows, S, status, expiry, a))
         /\ "QUEUED" \in S => ~Owned(UpdateLast(rows, S, status, expiry, a))
<1> DEFINE new == UpdateLast(rows, S, status, expiry, a)
<1>0. status \in QueueStatus /\ status # "QUEUED"
  BY DEF QueueStatus, ActiveStatus, TerminalStatus
<1>1. CASE ~Applies(rows, S, status)
  <2>1. new = rows
    BY <1>0, <1>1, UpdateFacts
  <2>2. "QUEUED" \in S => ~Owned(rows)
    BY <1>0, <1>1 DEF Owned, Applies
  <2> QED BY <2>1, <2>2
<1>2. CASE Applies(rows, S, status)
  <2>1. /\ new \in Seq(Row) /\ Len(new) = Len(rows)
        /\ \A n \in 1 .. Len(rows) : n # Len(rows) => new[n] = rows[n]
        /\ Last(new) = QueueRow(status, IF expiry = None THEN Last(rows).next_check_at
                                                         ELSE expiry, a)
    BY <1>0, <1>2, UpdateFacts
  <2>2. Last(new).status = status
    BY <2>1 DEF QueueRow
  <2>3. ~Owned(new)
    BY <1>0, <2>2 DEF Owned
  <2> HIDE DEF new
  <2>4. RowsOK(new)
    <3> SUFFICES ASSUME NEW n \in DOMAIN new
                 PROVE  /\ new[n].status \in {"QUEUED", "COOLDOWN", "SKIPPED"}
                        /\ new[n].status = "QUEUED" => n = Len(new)
      BY DEF RowsOK
    <3>1. n \in 1 .. Len(rows)
      BY <2>1
    <3> QED BY <1>0, <2>1, <2>2, <3>1 DEF RowsOK, Last
  <2> QED BY <2>3, <2>4 DEF new
<1> QED BY <1>1, <1>2
-----------------------------------------------------------------------------
(* The inductive invariant *)

(* The two tokens are claimed, the others are left alone.                    *)
Claimed(old, new, s, a) ==
  \A t \in Token : new[t] = IF t = s[1] \/ t = s[2] THEN ClaimTrackingItem(old[t], a)
                                                    ELSE old[t]

(* Rows that differ from the older ones are of tokens let go.                *)
Skips(old, new) ==
  \A t \in Token :
    \/ new[t] = old[t]
    \/ (Owned(old[t]) /\ new[t] # << >> /\ Last(new[t]).status = "SKIPPED")

Parity(d) ==
  \A w \in Work : d.jobs[w] = IF d.work[w] = "RUNNING" THEN "PENDING" ELSE d.work[w]

(* In every version of the rows, a job follows its work and only the last    *)
(* row of a token is live; a mirrored batch has no job of the executor.      *)
Sound(d) ==
  /\ Parity(d)
  /\ \A t \in Token : RowsOK(d.queue[t])
  /\ d.mirror => \A i \in Ordinal : d.first15m[i] # "PENDING"

(* What the campaign has done of its handoff: nothing, or all of it.         *)
TwoTokens(s) == s \in Token \X Token /\ s[1] # s[2]

Untouched(d) ==
  /\ ~d.mirror
  /\ \A i \in Ordinal : /\ d.slots[i] = "ABSENT" /\ d.first15m[i] = "ABSENT"
                         /\ d.work[Handoff[i]] # "SUCCEEDED"

Handed(d, s) ==
  /\ TwoTokens(s)
  /\ \A i \in Ordinal : /\ d.slots[i] # "ABSENT" /\ d.first15m[i] # "ABSENT"
                         /\ d.work[Handoff[i]] = "SUCCEEDED"
                         /\ d.queue[s[i]] # << >>

HalfHanded(d) ==
  /\ ~d.mirror
  /\ d.slots[1] = "SELECTED" /\ d.first15m[1] # "ABSENT" /\ d.work[Handoff[1]] = "SUCCEEDED"
  /\ d.slots[2] = "ABSENT" /\ d.first15m[2] = "ABSENT"

Eligible(queue, s, a) == \A i \in Ordinal : HandoffEligible(queue[s[i]], a)

(* Which work is open.                                                       *)
WorkInv ==
  /\ Running(db) = {}
  /\ pc = "select" => Running(tx) = {"select"}
  /\ pc = "slot1" => Running(tx) = HandoffWork
  /\ pc = "slot2" => Running(tx) = {Handoff[2]}
  /\ pc \notin {"select", "slot1", "slot2"} => Running(tx) = {}
  /\ pc \in {"slot1", "slot2"} => Running(saved) = HandoffWork

(* Where the process is tells what of the handoff its connection sees.       *)
HandoffInv ==
  /\ Untouched(db) \/ (Handed(db, sel) /\ pc \notin Executing)
  /\ pc \in {"intake", "select", "prepare", "slot1"} =>
       Untouched(tx) /\ tx.queue = db.queue
  /\ pc \in {"slot1", "slot2"} => Untouched(saved) /\ saved.queue = db.queue
  /\ pc \in {"prepare", "slot1", "slot2"} => TwoTokens(sel) /\ Eligible(db.queue, sel, at)
  /\ pc = "slot2" =>
       /\ HalfHanded(tx)
       /\ tx.queue = [db.queue EXCEPT ![sel[1]] = ClaimTrackingItem(@, at)]
  /\ pc = "commit" =>
       \/ Untouched(tx) /\ tx.queue = db.queue
       \/ /\ Handed(tx, sel) /\ Eligible(db.queue, sel, at)
          /\ Claimed(db.queue, tx.queue, sel, at)
  /\ pc \in {"commit", "materialize"} =>
       \A i \in Ordinal : tx.slots[i] \in {"SELECTED", "ABSENT"}

(* After the commit: the tokens are owned until the factory lets them go.    *)
LifecycleInv ==
  /\ pc \in {"idle", "materialize", "lifecycle", "returned", "reconcile", "closed", "dead"} =>
       tx = db
  /\ pc \in {"materialize", "lifecycle"} /\ Handed(db, sel) =>
       \A i \in Ordinal : Owned(db.queue[sel[i]])
  /\ pc = "lifecycle" => Handed(db, sel)

(* The closure: a token that is still owned is let go by the commit that     *)
(* moves its slot or, in a FAILED campaign, by the last one.                 *)
Settled(d, s, i) ==
  d.slots[i] # "SELECTED" /\ (d.slots[i] # "ABSENT" => ~Owned(d.queue[s[i]]))

ToSettle(d, s, i, f) ==
  d.slots[i] \in {"SELECTED", "ABSENT"} \/ ~Owned(d.queue[s[i]]) \/ f

SettledOrFailed(d, s, i, f) == Settled(d, s, i) \/ (f /\ d.slots[i] # "SELECTED")

ClosingInv ==
  /\ pc \in Closing \cup {"closed"} => db.owner = "TERMINAL" /\ tx.owner = "TERMINAL"
  /\ pc \in {"close1", "close2", "close3"} =>
       /\ Untouched(tx) \/ Handed(tx, sel)
       /\ Skips(db.queue, tx.queue)
  /\ pc \in {"returned", "reconcile", "close1"} => \A i \in Ordinal : ToSettle(db, sel, i, failed)
  /\ pc = "close1" => tx.slots = db.slots /\ tx.queue = db.queue
  /\ pc = "close2" =>
       /\ tx.slots[2] = db.slots[2] /\ ToSettle(db, sel, 2, failed)
       /\ Settled(tx, sel, 1) /\ SettledOrFailed(db, sel, 1, failed)
  /\ pc = "close3" =>
       \A i \in Ordinal : Settled(tx, sel, i) /\ SettledOrFailed(db, sel, i, failed)
  /\ pc = "closed" => \A i \in Ordinal : Settled(db, sel, i)

HandInv ==
  /\ TypeOK /\ at <= now
  /\ Sound(db) /\ Sound(tx) /\ Sound(saved)
  /\ WorkInv /\ HandoffInv /\ LifecycleInv /\ ClosingInv

-----------------------------------------------------------------------------
(* Work and its jobs *)

(* The two handoffs are work of their own.                                   *)
LEMMA WorkNames ==
  /\ Handoff[1] \in Work /\ Handoff[2] \in Work /\ Handoff[1] # Handoff[2]
  /\ HandoffWork = {Handoff[1], Handoff[2]} /\ HandoffWork \subseteq Work
  /\ "select" \in Work
  /\ \A i \in Ordinal : Handoff[i] \notin Intake \cup Secondary \cup {"select"}
BY HandoffAssumption DEF Handoff, HandoffWork, Work, Ordinal, Intake

(* What an operation on work does not touch.                                 *)
Alike(new, d) ==
  /\ new.queue = d.queue /\ new.slots = d.slots /\ new.first15m = d.first15m
  /\ new.mirror = d.mirror /\ new.owner = d.owner

(* New work is open, its job pending.                                        *)
LEMMA CreateFacts ==
  ASSUME NEW d \in Record, Parity(d), NEW W \in SUBSET Work
  PROVE  /\ CreateWork(d, W) \in Record /\ Alike(CreateWork(d, W), d)
         /\ Parity(CreateWork(d, W))
         /\ Running(CreateWork(d, W)) = Running(d) \cup W
         /\ \A w \in Work : CreateWork(d, W).work[w] = IF w \in W THEN "RUNNING" ELSE d.work[w]
<1> DEFINE new == CreateWork(d, W)
<1>1. /\ \A w \in Work : new.work[w] = IF w \in W THEN "RUNNING" ELSE d.work[w]
      /\ \A w \in Work : new.jobs[w] = IF w \in W THEN "PENDING" ELSE d.jobs[w]
  BY DEF CreateWork, Record
<1>2. Alike(new, d)
  BY DEF CreateWork, Record, Alike
<1>3. new \in Record
  <2>1. /\ [w \in Work |-> IF w \in W THEN "RUNNING" ELSE d.work[w]] \in [Work -> WorkState]
        /\ [w \in Work |-> IF w \in W THEN "PENDING" ELSE d.jobs[w]] \in [Work -> JobState]
    BY DEF Record, WorkState, JobState
  <2> QED BY <2>1 DEF CreateWork, Record
<1>4. Parity(new)
  BY <1>1 DEF Parity
<1>5. Running(new) = Running(d) \cup W
  BY <1>1 DEF Running
<1> QED BY <1>1, <1>2, <1>3, <1>4, <1>5

(* Open work that ends takes its job along.                                  *)
LEMMA TerminalizeFacts ==
  ASSUME NEW d \in Record, Parity(d), NEW W \in SUBSET Work, W \subseteq Running(d),
         NEW state \in {"SUCCEEDED", "FAILED"}
  PROVE  /\ TerminalizeWork(d, W, state) \in Record /\ Alike(TerminalizeWork(d, W, state), d)
         /\ Parity(TerminalizeWork(d, W, state))
         /\ Running(TerminalizeWork(d, W, state)) = Running(d) \ W
         /\ \A w \in Work :
              TerminalizeWork(d, W, state).work[w] = IF w \in W THEN state ELSE d.work[w]
<1> DEFINE new == TerminalizeWork(d, W, state)
<1>1. /\ \A w \in Work : new.work[w] = IF w \in W THEN state ELSE d.work[w]
      /\ \A w \in Work : new.jobs[w] = IF w \in W /\ d.jobs[w] = "PENDING" THEN state ELSE d.jobs[w]
  BY DEF TerminalizeWork, FollowWork, Record
<1>2. Alike(new, d)
  BY DEF TerminalizeWork, FollowWork, Record, Alike
<1>3. new \in Record
  <2>1. /\ [w \in Work |-> IF w \in W THEN state ELSE d.work[w]] \in [Work -> WorkState]
        /\ [w \in Work |-> IF w \in W /\ d.jobs[w] = "PENDING"
             THEN [v \in Work |-> IF v \in W THEN state ELSE d.work[v]][w]
             ELSE d.jobs[w]] \in [Work -> JobState]
    BY DEF Record, WorkState, JobState
  <2> QED BY <2>1 DEF TerminalizeWork, FollowWork, Record
<1>4. \A w \in W : d.work[w] = "RUNNING"
  BY DEF Running
<1>5. Parity(new)
  BY <1>1, <1>4 DEF Parity
<1>6. Running(new) = Running(d) \ W
  BY <1>1 DEF Running
<1> QED BY <1>1, <1>2, <1>3, <1>5, <1>6

(* A reconciliation leaves no work open and makes none succeed.              *)
LEMMA ReconcileFacts ==
  ASSUME NEW d \in Record, Parity(d)
  PROVE  /\ ReconcileWork(d) \in Record /\ Alike(ReconcileWork(d), d)
         /\ Parity(ReconcileWork(d))
         /\ Running(ReconcileWork(d)) = {}
         /\ \A w \in Work :
              ReconcileWork(d).work[w] = IF d.work[w] = "RUNNING" THEN "CANCELLED" ELSE d.work[w]
<1> DEFINE mid == [d EXCEPT !.work = [w \in Work |->
                     IF w \in Running(d) THEN "CANCELLED" ELSE @[w]]]
           W == {w \in Work : mid.work[w] # "ABSENT"}
           new == ReconcileWork(d)
<1>1. mid \in Record /\ Alike(mid, d) /\ mid.jobs = d.jobs
      /\ \A w \in Work : mid.work[w] = IF d.work[w] = "RUNNING" THEN "CANCELLED" ELSE d.work[w]
  BY DEF Record, WorkState, Alike, Running
<1>2. new = FollowWork(mid, W)
  BY DEF ReconcileWork
<1> HIDE DEF mid, new
<1>3. /\ \A w \in Work : new.jobs[w] = IF w \in W /\ mid.jobs[w] = "PENDING"
                                       THEN mid.work[w] ELSE mid.jobs[w]
      /\ new.work = mid.work
      /\ Alike(new, mid)
  BY <1>1, <1>2 DEF FollowWork, Record, Alike
<1>4. \A w \in W : mid.work[w] \in JobState \/ mid.work[w] = "RUNNING"
  BY <1>1 DEF Record, WorkState, JobState
<1>5. new \in Record
  <2>1. [w \in Work |-> IF w \in W /\ mid.jobs[w] = "PENDING" THEN mid.work[w]
                                                             ELSE mid.jobs[w]] \in [Work -> JobState]
    BY <1>1, <1>4 DEF Record, JobState
  <2> QED BY <1>1, <1>2, <2>1 DEF FollowWork, Record
<1>6. Parity(new)
  BY <1>1, <1>3 DEF Parity
<1>7. Running(new) = {}
  BY <1>1, <1>3 DEF Running
<1>8. Alike(new, d)
  BY <1>1, <1>3 DEF Alike
<1> QED BY <1>1, <1>3, <1>5, <1>6, <1>7, <1>8 DEF new

(* A failed batch is reconciled.                                             *)
LEMMA BatchFailedFacts ==
  ASSUME NEW d \in Record, Parity(d)
  PROVE  /\ BatchFailed(d) \in Record /\ Alike(BatchFailed(d), d)
         /\ Parity(BatchFailed(d))
         /\ Running(BatchFailed(d)) = {}
         /\ \A w \in Work :
              BatchFailed(d).work[w] = IF d.work[w] = "RUNNING" THEN "CANCELLED" ELSE d.work[w]
<1> DEFINE mid == [d EXCEPT !.batch = "TERMINAL_FAILED"]
<1>1. /\ mid \in Record /\ Alike(mid, d) /\ mid.work = d.work /\ mid.jobs = d.jobs
  BY DEF Record, Alike
<1>2. BatchFailed(d) = ReconcileWork(mid)
  BY DEF BatchFailed
<1> HIDE DEF mid
<1>3. Parity(mid)
  BY <1>1 DEF Parity
<1> QED BY <1>1, <1>2, <1>3, ReconcileFacts DEF Alike

(* Rows that are alike are sound alike.                                      *)
LEMMA AlikeSound ==
  ASSUME NEW d, NEW new, Sound(d), Alike(new, d), Parity(new) PROVE Sound(new)
BY DEF Sound, Alike

-----------------------------------------------------------------------------
(* Launches *)

(* The rows of a new campaign are sound, and nothing is handed off.          *)
LEMMA NewCampaignFacts ==
  ASSUME NEW queue \in [Token -> Seq(Row)], \A t \in Token : RowsOK(queue[t]),
         NEW d, d.queue = queue
  PROVE  /\ NewCampaign(d) \in Record /\ NewCampaign(d).queue = queue
         /\ NewCampaign(d).owner = "RUNNING"
         /\ Sound(NewCampaign(d)) /\ Untouched(NewCampaign(d)) /\ Running(NewCampaign(d)) = {}
<1>1. NewCampaign(d) \in Record
  BY DEF NewCampaign, Record, Row, WorkState, JobState, SlotState
<1>2. Parity(NewCampaign(d)) /\ Running(NewCampaign(d)) = {}
  BY DEF NewCampaign, Parity, Running
<1>3. Untouched(NewCampaign(d))
  BY WorkNames DEF NewCampaign, Untouched, Ordinal
<1> QED BY <1>1, <1>2, <1>3 DEF NewCampaign, Sound

(* A database is sound whatever campaigns before it left to the queue.       *)
LEMMA HandInit == Init => HandInv
<1> SUFFICES ASSUME Init PROVE HandInv
  OBVIOUS
<1>1. PICK queue \in [Token -> History] :
        db = [NewCampaign([queue |-> queue]) EXCEPT !.owner = "TERMINAL"]
  BY DEF Init
<1>2. \A rows \in History : rows \in Seq(Row) /\ RowsOK(rows)
  <2>1. \A rows \in History : rows = << >> \/ \E row \in Row :
          rows = <<row>> /\ row.status \in {"COOLDOWN", "SKIPPED"}
    BY CooldownAssumption
    DEF History, Row, QueueRow, QueueStatus, ActiveStatus, TerminalStatus, None
  <2>2. << >> \in Seq(Row) /\ RowsOK(<< >>)
    BY DEF RowsOK
  <2>3. ASSUME NEW row \in Row, row.status \in {"COOLDOWN", "SKIPPED"}
        PROVE  <<row>> \in Seq(Row) /\ RowsOK(<<row>>)
    BY <2>3 DEF RowsOK
  <2> QED BY <2>1, <2>2, <2>3
<1> DEFINE new == NewCampaign([queue |-> queue])
<1>3. queue \in [Token -> Seq(Row)] /\ \A t \in Token : RowsOK(queue[t])
  BY <1>2
<1>4. new \in Record /\ Sound(new) /\ Untouched(new) /\ Running(new) = {}
  BY <1>3, NewCampaignFacts
<1> HIDE DEF new
<1>5. db = [new EXCEPT !.owner = "TERMINAL"]
  BY <1>1 DEF new
<1>6. db \in Record /\ db.owner = "TERMINAL" /\ Sound(db) /\ Untouched(db) /\ Running(db) = {}
  BY <1>4, <1>5 DEF Record, Sound, Parity, Untouched, Running
<1>7. TypeOK
  <2>1. 0 \in 0 .. MaxTime /\ 0 \in 0 .. MaxCampaigns
    BY HandoffAssumption
  <2> QED BY <1>6, <2>1 DEF Init, TypeOK, Place, AtRest, Cause
<1> QED BY <1>6, <1>7 DEF Init, HandInv, WorkInv, HandoffInv, LifecycleInv, ClosingInv,
           Executing, Closing

(* The clock.                                                                *)
LEMMA TickKeeps ==
  ASSUME HandInv, Tick PROVE HandInv'
<1>1. TypeOK'
  BY HandoffAssumption DEF HandInv, TypeOK, Tick
<1>2. at' <= now'
  BY HandoffAssumption DEF HandInv, TypeOK, Tick
<1> QED BY <1>1, <1>2 DEF HandInv, Tick, WorkInv, HandoffInv, LifecycleInv, ClosingInv

(* A launch keeps the rows of the queue.                                     *)
LEMMA LaunchKeeps ==
  ASSUME HandInv, Launch PROVE HandInv' /\ db'.queue = db.queue
<1>1. /\ db' = NewCampaign(db) /\ tx' = db' /\ saved' = db' /\ pc' = "intake" /\ at' = now
      /\ sel' = << >>
  BY DEF Launch, Goto
<1>2. db.queue \in [Token -> Seq(Row)] /\ \A t \in Token : RowsOK(db.queue[t])
  BY DEF HandInv, TypeOK, Record, Row, Sound
<1>3. /\ db' \in Record /\ Sound(db') /\ Untouched(db') /\ Running(db') = {}
      /\ db'.queue = db.queue
  BY <1>1, <1>2, NewCampaignFacts
<1>4. TypeOK' /\ at' <= now'
  <2>1. campaigns' \in 0 .. MaxCampaigns
    BY HandoffAssumption DEF HandInv, TypeOK, Launch
  <2>2. now' = now /\ at' \in 0 .. MaxTime /\ at' <= now'
    BY <1>1, HandoffAssumption DEF HandInv, TypeOK, Launch
  <2> QED BY <1>1, <1>3, <2>1, <2>2 DEF HandInv, TypeOK, Launch, Place, Executing, Cause
<1> QED BY <1>1, <1>3, <1>4
        DEF HandInv, WorkInv, HandoffInv, LifecycleInv, ClosingInv, Executing, Closing

-----------------------------------------------------------------------------
(* The discovery cycle *)

(* Intake work is created and succeeds, then the selection is open.          *)
LEMMA RunIntakeKeeps ==
  ASSUME HandInv, RunIntake PROVE HandInv'
<1>1. PICK planned \in SUBSET Secondary :
        tx' = CreateWork([TerminalizeWork(CreateWork(tx, Intake \cup planned),
                                          Intake \cup planned, "SUCCEEDED")
                            EXCEPT !.batch = "DISCOVERING"], {"select"})
  BY DEF RunIntake
<1> DEFINE W == Intake \cup planned
           created == CreateWork(tx, W)
           done == TerminalizeWork(created, W, "SUCCEEDED")
           ready == [done EXCEPT !.batch = "DISCOVERING"]
<1>2. /\ pc = "intake" /\ pc' = "select"
      /\ UNCHANGED <<now, db, saved, at, facts, sel, cause, failed, campaigns>>
      /\ tx \in Record /\ Sound(tx) /\ Parity(tx) /\ Running(tx) = {}
      /\ Untouched(tx) /\ tx.queue = db.queue
  BY DEF RunIntake, Goto, HandInv, TypeOK, WorkInv, HandoffInv, Sound
<1>3. W \in SUBSET Work
  BY DEF Work
<1>4. /\ created \in Record /\ Alike(created, tx) /\ Parity(created) /\ Running(created) = W
      /\ \A w \in Work : created.work[w] = IF w \in W THEN "RUNNING" ELSE tx.work[w]
  BY <1>2, <1>3, CreateFacts
<1> HIDE DEF created
<1>5. /\ done \in Record /\ Alike(done, created) /\ Parity(done) /\ Running(done) = {}
      /\ \A w \in Work : done.work[w] = IF w \in W THEN "SUCCEEDED" ELSE created.work[w]
  BY <1>3, <1>4, TerminalizeFacts
<1> HIDE DEF done
<1>6. /\ ready \in Record /\ Alike(ready, done) /\ ready.work = done.work /\ ready.jobs = done.jobs
  BY <1>5 DEF Record, Alike
<1>7. tx' = CreateWork(ready, {"select"})
  BY <1>1 DEF done, created
<1> HIDE DEF ready
<1>8. Parity(ready) /\ Running(ready) = {}
  BY <1>5, <1>6 DEF Parity, Running
<1>9. /\ tx' \in Record /\ Alike(tx', ready) /\ Parity(tx') /\ Running(tx') = {"select"}
      /\ \A w \in Work : tx'.work[w] = IF w \in {"select"} THEN "RUNNING" ELSE ready.work[w]
  BY <1>6, <1>7, <1>8, CreateFacts, WorkNames
<1>10. Alike(tx', tx)
  BY <1>4, <1>5, <1>6, <1>9 DEF Alike
<1>11. \A i \in Ordinal : tx'.work[Handoff[i]] = tx.work[Handoff[i]]
  <2> SUFFICES ASSUME NEW i \in Ordinal PROVE tx'.work[Handoff[i]] = tx.work[Handoff[i]]
    OBVIOUS
  <2>1. Handoff[i] \in Work /\ Handoff[i] \notin W /\ Handoff[i] # "select"
    BY WorkNames DEF Ordinal
  <2> QED BY <1>4, <1>5, <1>6, <1>9, <2>1
<1>12. Untouched(tx') /\ Sound(tx') /\ tx'.queue = tx.queue
  BY <1>2, <1>9, <1>10, <1>11, AlikeSound DEF Untouched, Alike
<1>13. TypeOK'
  BY <1>2, <1>9 DEF HandInv, TypeOK, Place, Executing
<1> QED BY <1>2, <1>9, <1>12, <1>13
        DEF HandInv, WorkInv, HandoffInv, LifecycleInv, ClosingInv, Executing, Closing

(* Two different tokens that may be handed off are selected.                 *)
LEMMA SelectTwoKeeps ==
  ASSUME HandInv, SelectTwo PROVE HandInv'
<1>1. /\ pc = "select" /\ pc' = "prepare" /\ tx' = TerminalizeWork(tx, {"select"}, "SUCCEEDED")
      /\ UNCHANGED <<now, db, saved, at, facts, cause, failed, campaigns>>
      /\ tx \in Record /\ Sound(tx) /\ Parity(tx) /\ Running(tx) = {"select"}
      /\ Untouched(tx) /\ tx.queue = db.queue /\ Untouched(db)
  BY DEF SelectTwo, Goto, HandInv, TypeOK, WorkInv, HandoffInv, Sound, Executing
<1>2. PICK pool \in SUBSET Token : sel' \in Selections(ApplyGates(pool))
  BY DEF SelectTwo
<1>3. TwoTokens(sel') /\ Eligible(db.queue, sel', at)
  BY <1>1, <1>2 DEF Selections, ApplyGates, TwoTokens, Eligible, Ordinal
<1>4. /\ tx' \in Record /\ Alike(tx', tx) /\ Parity(tx') /\ Running(tx') = {}
      /\ \A w \in Work : tx'.work[w] = IF w \in {"select"} THEN "SUCCEEDED" ELSE tx.work[w]
  BY <1>1, TerminalizeFacts, WorkNames
<1>5. \A i \in Ordinal : tx'.work[Handoff[i]] = tx.work[Handoff[i]]
  BY <1>4, WorkNames DEF Ordinal
<1>6. Untouched(tx') /\ Sound(tx') /\ tx'.queue = tx.queue
  BY <1>1, <1>4, <1>5, AlikeSound DEF Untouched, Alike
<1>7. TypeOK'
  BY <1>1, <1>3, <1>4 DEF HandInv, TypeOK, Place, Executing, TwoTokens
<1> QED BY <1>1, <1>3, <1>4, <1>6, <1>7
        DEF HandInv, WorkInv, HandoffInv, LifecycleInv, ClosingInv, Executing, Closing

(* A cycle that is given up before it activates anything.                    *)
LEMMA GivesUpKeeps ==
  ASSUME HandInv, pc \in Executing, pc' = "commit", cause' \in Cause,
         UNCHANGED <<now, db, saved, at, facts, sel, failed, campaigns>>,
         NEW d \in Record, Sound(d), Untouched(d), d.queue = db.queue, tx' = BatchFailed(d)
  PROVE  HandInv'
<1>1. Parity(d) /\ Untouched(db)
  BY DEF Sound, HandInv, HandoffInv
<1>2. /\ tx' \in Record /\ Alike(tx', d) /\ Parity(tx') /\ Running(tx') = {}
      /\ \A w \in Work : tx'.work[w] = IF d.work[w] = "RUNNING" THEN "CANCELLED" ELSE d.work[w]
  BY <1>1, BatchFailedFacts
<1>3. \A i \in Ordinal : Handoff[i] \in Work
  BY WorkNames DEF Ordinal
<1>4. Untouched(tx') /\ Sound(tx') /\ tx'.queue = db.queue
  BY <1>2, <1>3, AlikeSound DEF Untouched, Alike
<1>5. TypeOK'
  BY <1>2 DEF HandInv, TypeOK, Place, Executing
<1>6. \A i \in Ordinal : tx'.slots[i] \in {"SELECTED", "ABSENT"}
  BY <1>4 DEF Untouched
<1> QED BY <1>1, <1>2, <1>4, <1>5, <1>6
        DEF HandInv, WorkInv, HandoffInv, LifecycleInv, ClosingInv, Executing, Closing

(* Fewer than two candidates.                                                *)
LEMMA ShortfallKeeps ==
  ASSUME HandInv, Shortfall PROVE HandInv'
<1> DEFINE d == TerminalizeWork(tx, {"select"}, "FAILED")
<1>1. /\ pc = "select" /\ pc' = "commit" /\ tx' = BatchFailed(d) /\ cause' \in Cause
      /\ UNCHANGED <<now, db, saved, at, facts, sel, failed, campaigns>>
      /\ tx \in Record /\ Sound(tx) /\ Parity(tx) /\ Running(tx) = {"select"}
      /\ Untouched(tx) /\ tx.queue = db.queue
  BY DEF Shortfall, Goto, HandInv, TypeOK, WorkInv, HandoffInv, Sound, Cause
<1>2. /\ d \in Record /\ Alike(d, tx) /\ Parity(d)
      /\ \A w \in Work : d.work[w] = IF w \in {"select"} THEN "FAILED" ELSE tx.work[w]
  BY <1>1, TerminalizeFacts, WorkNames
<1> HIDE DEF d
<1>3. \A i \in Ordinal : d.work[Handoff[i]] = tx.work[Handoff[i]]
  BY <1>2, WorkNames DEF Ordinal
<1>4. Untouched(d) /\ Sound(d) /\ d.queue = db.queue
  BY <1>1, <1>2, <1>3, AlikeSound DEF Untouched, Alike
<1> QED BY <1>1, <1>2, <1>4, GivesUpKeeps DEF Executing

(* The whole cycle is rolled back.                                           *)
LEMMA CycleRaisesKeeps ==
  ASSUME HandInv, pc \in Executing, NEW code \in Cause, CycleRaises(code)
  PROVE  HandInv'
<1>1. /\ tx' = db /\ saved' = db /\ pc' = "materialize" /\ cause' = code
      /\ UNCHANGED <<now, db, at, facts, sel, failed, campaigns>>
      /\ Untouched(db)
  BY DEF CycleRaises, Goto, HandInv, HandoffInv
<1>2. TypeOK'
  BY <1>1 DEF HandInv, TypeOK, Place
<1>3. \A i \in Ordinal : db.slots[i] \in {"SELECTED", "ABSENT"}
  BY <1>1 DEF Untouched
<1>4. ~Handed(db, sel)
  BY <1>1 DEF Untouched, Handed, Ordinal
<1> QED BY <1>1, <1>2, <1>3, <1>4
        DEF HandInv, WorkInv, HandoffInv, LifecycleInv, ClosingInv, Executing, Closing

(* The handoff work is created below the ceiling and the savepoint is set.   *)
LEMMA PrepareKeeps ==
  ASSUME HandInv, PrepareHandoff PROVE HandInv'
<1>1. CASE ~WithinCeiling(tx)
  BY <1>1, CycleRaisesKeeps DEF PrepareHandoff, Executing, Cause
<1>2. CASE WithinCeiling(tx)
  <2>1. /\ pc = "prepare" /\ pc' = "slot1" /\ tx' = CreateWork(tx, HandoffWork) /\ saved' = tx'
        /\ UNCHANGED <<now, db, at, facts, sel, cause, failed, campaigns>>
        /\ tx \in Record /\ Sound(tx) /\ Parity(tx) /\ Running(tx) = {}
        /\ Untouched(tx) /\ tx.queue = db.queue /\ Untouched(db)
        /\ TwoTokens(sel) /\ Eligible(db.queue, sel, at)
    BY <1>2 DEF PrepareHandoff, Goto, HandInv, TypeOK, WorkInv, HandoffInv, Sound, Executing
  <2>2. /\ tx' \in Record /\ Alike(tx', tx) /\ Parity(tx') /\ Running(tx') = HandoffWork
        /\ \A w \in Work : tx'.work[w] = IF w \in HandoffWork THEN "RUNNING" ELSE tx.work[w]
    BY <2>1, CreateFacts, WorkNames
  <2>3. \A i \in Ordinal : tx'.work[Handoff[i]] = "RUNNING"
    BY <2>2, WorkNames DEF Ordinal
  <2>4. Untouched(tx') /\ Sound(tx') /\ tx'.queue = db.queue
    BY <2>1, <2>2, <2>3, AlikeSound DEF Untouched, Alike
  <2>5. TypeOK'
    BY <2>1, <2>2 DEF HandInv, TypeOK, Place, Executing
  <2> QED BY <2>1, <2>2, <2>4, <2>5
          DEF HandInv, WorkInv, HandoffInv, LifecycleInv, ClosingInv, Executing, Closing
<1> QED BY <1>1, <1>2

(* The rows of one handoff: a queued row, a job and a slot.                  *)
Slotted(d, t, i, a) ==
  [d EXCEPT !.queue[t] = ClaimTrackingItem(@, a), !.first15m[i] = "PENDING",
            !.slots[i] = "SELECTED"]

(* What is handed off with them is done.                                     *)
HandedSlot(new, d, t, i, a) ==
  /\ new \in Record /\ Sound(new) /\ ~new.mirror
  /\ new.queue = [d.queue EXCEPT ![t] = ClaimTrackingItem(@, a)]
  /\ Running(new) = Running(d) \ {Handoff[i]}
  /\ \A j \in Ordinal :
       /\ new.slots[j] = IF j = i THEN "SELECTED" ELSE d.slots[j]
       /\ new.first15m[j] = IF j = i THEN "PENDING" ELSE d.first15m[j]
       /\ new.work[Handoff[j]] = IF j = i THEN "SUCCEEDED" ELSE d.work[Handoff[j]]

(* A handoff keeps the rows sound when its token may be handed off.          *)
LEMMA SlotFacts ==
  ASSUME NEW d \in Record, Sound(d), ~d.mirror, NEW t \in Token, NEW i \in Ordinal,
         NEW a \in Nat, HandoffEligible(d.queue[t], a), Handoff[i] \in Running(d)
  PROVE  HandedSlot(TerminalizeWork(Slotted(d, t, i, a), {Handoff[i]}, "SUCCEEDED"), d, t, i, a)
<1> DEFINE mid == Slotted(d, t, i, a)
           new == TerminalizeWork(mid, {Handoff[i]}, "SUCCEEDED")
<1>1. d.queue \in [Token -> Seq(Row)] /\ d.queue[t] \in Seq(Row) /\ RowsOK(d.queue[t])
  BY DEF Record, Row, Sound
<1>2. ClaimTrackingItem(d.queue[t], a) \in Seq(Row)
  BY <1>1, ClaimFacts
<1>3. RowsOK(ClaimTrackingItem(d.queue[t], a))
  BY <1>1, EligibleIsFree, ClaimKeepsRowsOK
<1>4. /\ mid.queue = [d.queue EXCEPT ![t] = ClaimTrackingItem(@, a)]
      /\ mid.first15m = [d.first15m EXCEPT ![i] = "PENDING"]
      /\ mid.slots = [d.slots EXCEPT ![i] = "SELECTED"]
      /\ mid.work = d.work /\ mid.jobs = d.jobs /\ mid.mirror = d.mirror
      /\ mid.owner = d.owner /\ mid.batch = d.batch
  BY DEF Record, Slotted
<1>5. mid.queue \in [Token -> Seq(Row)]
  <2> HIDE DEF mid
  <2> QED BY <1>1, <1>2, <1>4
<1>6. mid \in Record
  <2>1. [d.first15m EXCEPT ![i] = "PENDING"] \in [Ordinal -> JobState]
    BY DEF Record, JobState
  <2>2. [d.slots EXCEPT ![i] = "SELECTED"] \in [Ordinal -> SlotState]
    BY DEF Record, SlotState
  <2> QED BY <1>4, <1>5, <2>1, <2>2 DEF Record, Row, Slotted
<1> HIDE DEF mid
<1>8. Parity(mid) /\ Running(mid) = Running(d)
  BY <1>4 DEF Sound, Parity, Running
<1>9. {Handoff[i]} \in SUBSET Work /\ {Handoff[i]} \subseteq Running(mid)
  BY <1>8, WorkNames DEF Ordinal
<1>10. /\ new \in Record /\ Alike(new, mid) /\ Parity(new)
       /\ Running(new) = Running(mid) \ {Handoff[i]}
       /\ \A w \in Work : new.work[w] = IF w \in {Handoff[i]} THEN "SUCCEEDED" ELSE mid.work[w]
  BY <1>6, <1>8, <1>9, TerminalizeFacts
<1> HIDE DEF new
<1>11. \A u \in Token : RowsOK(mid.queue[u])
  BY <1>1, <1>3, <1>4 DEF Sound
<1>12. Sound(new)
  BY <1>4, <1>10, <1>11 DEF Sound, Alike
<1>13. \A j \in Ordinal :
         /\ new.slots[j] = IF j = i THEN "SELECTED" ELSE d.slots[j]
         /\ new.first15m[j] = IF j = i THEN "PENDING" ELSE d.first15m[j]
  BY <1>4, <1>10 DEF Alike, Record
<1>14. ASSUME NEW j \in Ordinal
       PROVE  new.work[Handoff[j]] = IF j = i THEN "SUCCEEDED" ELSE d.work[Handoff[j]]
  <2>1. Handoff[j] \in Work /\ (Handoff[j] = Handoff[i] <=> j = i)
    BY WorkNames DEF Ordinal
  <2> QED BY <1>4, <1>10, <2>1
<1>15. new.queue = mid.queue /\ ~new.mirror
  BY <1>4, <1>10 DEF Alike
<1>16. HandedSlot(new, d, t, i, a)
  BY <1>4, <1>8, <1>10, <1>12, <1>13, <1>14, <1>15 DEF HandedSlot
<1> QED BY <1>16 DEF new, mid

(* The instants and rows of the invariant have their types.                  *)
LEMMA TypeFacts ==
  ASSUME HandInv
  PROVE  /\ now \in Nat /\ at \in Nat
         /\ \A d \in {db, tx, saved} :
              /\ d \in Record /\ Sound(d) /\ Parity(d)
              /\ d.queue \in [Token -> Seq(Row)]
              /\ \A t \in Token : d.queue[t] \in Seq(Row) /\ RowsOK(d.queue[t])
<1>1. now \in Nat /\ at \in Nat
  BY HandoffAssumption DEF HandInv, TypeOK
<1>2. ASSUME NEW d \in Record, Sound(d)
      PROVE  /\ Parity(d) /\ d.queue \in [Token -> Seq(Row)]
             /\ \A t \in Token : d.queue[t] \in Seq(Row) /\ RowsOK(d.queue[t])
  BY <1>2 DEF Sound, Record, Row
<1> QED BY <1>1, <1>2 DEF HandInv, TypeOK

(* The first of the two handoffs.                                            *)
LEMMA FirstSlotKeeps ==
  ASSUME HandInv, HandoffOneSlot(1) PROVE HandInv'
<1>1. /\ pc = "slot1" /\ pc' = "slot2"
      /\ tx' = TerminalizeWork(Slotted(tx, sel[1], 1, at), {Handoff[1]}, "SUCCEEDED")
      /\ UNCHANGED <<now, db, saved, at, facts, sel, cause, failed, campaigns>>
  BY DEF HandoffOneSlot, AtSlot, Goto, Slotted
<1>2. /\ tx \in Record /\ Sound(tx) /\ Running(tx) = HandoffWork
      /\ Untouched(tx) /\ tx.queue = db.queue
      /\ TwoTokens(sel) /\ Eligible(db.queue, sel, at) /\ at \in Nat
  BY <1>1, TypeFacts DEF HandInv, WorkInv, HandoffInv
<1>3. sel[1] \in Token /\ HandoffEligible(tx.queue[sel[1]], at) /\ ~tx.mirror
  BY <1>2 DEF TwoTokens, Eligible, Ordinal, Untouched
<1>4. Handoff[1] \in Running(tx) /\ HandoffWork \ {Handoff[1]} = {Handoff[2]}
  BY <1>2, WorkNames
<1>5. HandedSlot(tx', tx, sel[1], 1, at)
  <2>1. 1 \in Ordinal
    BY DEF Ordinal
  <2> QED BY <1>1, <1>2, <1>3, <1>4, <2>1, SlotFacts
<1>6. HalfHanded(tx')
  BY <1>2, <1>5 DEF HalfHanded, Untouched, Ordinal, HandedSlot
<1>7. TypeOK'
  BY <1>1, <1>5 DEF HandInv, TypeOK, Place, Executing, HandedSlot
<1> QED BY <1>1, <1>2, <1>4, <1>5, <1>6, <1>7
        DEF HandedSlot, HandInv, WorkInv, HandoffInv, LifecycleInv, ClosingInv, Executing, Closing

(* The second: the other token is as the gate saw it.                        *)
LEMMA SecondSlotKeeps ==
  ASSUME HandInv, HandoffOneSlot(2) PROVE HandInv'
<1>1. /\ pc = "slot2" /\ pc' = "commit"
      /\ tx' = TerminalizeWork(Slotted(tx, sel[2], 2, at), {Handoff[2]}, "SUCCEEDED")
      /\ UNCHANGED <<now, db, saved, at, facts, sel, cause, failed, campaigns>>
  BY DEF HandoffOneSlot, AtSlot, Goto, Slotted
<1>2. /\ tx \in Record /\ Sound(tx) /\ Running(tx) = {Handoff[2]}
      /\ HalfHanded(tx) /\ tx.queue = [db.queue EXCEPT ![sel[1]] = ClaimTrackingItem(@, at)]
      /\ TwoTokens(sel) /\ Eligible(db.queue, sel, at) /\ at \in Nat
      /\ db.queue \in [Token -> Seq(Row)]
  BY <1>1, TypeFacts DEF HandInv, WorkInv, HandoffInv
<1>3. /\ sel[1] \in Token /\ sel[2] \in Token /\ sel[1] # sel[2] /\ ~tx.mirror
      /\ tx.queue[sel[2]] = db.queue[sel[2]] /\ HandoffEligible(tx.queue[sel[2]], at)
  BY <1>2 DEF TwoTokens, Eligible, Ordinal, HalfHanded
<1>4. Handoff[2] \in Running(tx)
  BY <1>2
<1>5. HandedSlot(tx', tx, sel[2], 2, at)
  <2>1. 2 \in Ordinal
    BY DEF Ordinal
  <2> QED BY <1>1, <1>2, <1>3, <1>4, <2>1, SlotFacts
<1>6. Claimed(db.queue, tx'.queue, sel, at)
  BY <1>2, <1>3, <1>5 DEF Claimed, HandedSlot
<1>7. \A i \in Ordinal : tx'.queue[sel[i]] # << >>
  <2>1. \A i \in Ordinal : sel[i] \in Token /\ (sel[i] = sel[1] \/ sel[i] = sel[2])
    BY <1>3 DEF Ordinal
  <2>2. \A t \in Token : ClaimTrackingItem(db.queue[t], at) # << >>
    BY <1>2, ClaimFacts
  <2> QED BY <1>6, <2>1, <2>2 DEF Claimed
<1>8. Handed(tx', sel) /\ \A i \in Ordinal : tx'.slots[i] \in {"SELECTED", "ABSENT"}
  BY <1>2, <1>5, <1>7 DEF Handed, HalfHanded, Ordinal, HandedSlot
<1>9. TypeOK'
  BY <1>1, <1>5 DEF HandInv, TypeOK, Place, Executing, HandedSlot
<1> QED BY <1>1, <1>2, <1>5, <1>6, <1>8, <1>9
        DEF HandedSlot, HandInv, WorkInv, HandoffInv, LifecycleInv, ClosingInv, Executing, Closing

(* The savepoint is restored, both handoffs fail.                            *)
LEMMA ActivationFailsKeeps ==
  ASSUME HandInv, pc \in {"slot1", "slot2"}, NEW code \in Cause, ActivationFails(code)
  PROVE  HandInv'
<1> DEFINE d == TerminalizeWork(saved, HandoffWork, "FAILED")
<1>1. /\ tx' = BatchFailed(d) /\ pc' = "commit" /\ cause' = code
      /\ UNCHANGED <<now, db, saved, at, facts, sel, failed, campaigns>>
      /\ saved \in Record /\ Sound(saved) /\ Parity(saved) /\ Running(saved) = HandoffWork
      /\ Untouched(saved) /\ saved.queue = db.queue
  BY DEF ActivationFails, Goto, HandInv, TypeOK, WorkInv, HandoffInv, Sound
<1>2. /\ d \in Record /\ Alike(d, saved) /\ Parity(d)
      /\ \A w \in Work : d.work[w] = IF w \in HandoffWork THEN "FAILED" ELSE saved.work[w]
  BY <1>1, TerminalizeFacts, WorkNames
<1> HIDE DEF d
<1>3. \A i \in Ordinal : d.work[Handoff[i]] = "FAILED"
  BY <1>2, WorkNames DEF Ordinal
<1>4. Untouched(d) /\ Sound(d) /\ d.queue = db.queue
  BY <1>1, <1>2, <1>3, AlikeSound DEF Untouched, Alike
<1> QED BY <1>1, <1>2, <1>4, GivesUpKeeps DEF Executing

(* A token refused at its slot.                                              *)
LEMMA HandoffRefusedKeeps ==
  ASSUME HandInv, NEW i \in Ordinal, HandoffRefused(i) PROVE HandInv'
<1>1. pc \in {"slot1", "slot2"} /\ (CycleRaises("REQUALIFICATION") \/ ActivationFails("HANDOFF"))
  BY DEF HandoffRefused, AtSlot, Ordinal
<1> QED BY <1>1, CycleRaisesKeeps, ActivationFailsKeeps DEF Executing, Cause

(* The commit of the cycle.                                                  *)
LEMMA CommitCycleKeeps ==
  ASSUME HandInv, CommitCycle PROVE HandInv'
<1>1. /\ pc = "commit" /\ pc' = "materialize" /\ db' = tx /\ saved' = tx /\ tx' = tx
      /\ cause' \in Cause /\ UNCHANGED <<now, at, facts, sel, failed, campaigns>>
      /\ Running(tx) = {}
      /\ \A i \in Ordinal : tx.slots[i] \in {"SELECTED", "ABSENT"}
      /\ \/ Untouched(tx)
         \/ Handed(tx, sel) /\ Claimed(db.queue, tx.queue, sel, at)
  BY DEF CommitCycle, Goto, HandInv, TypeOK, Cause, WorkInv, HandoffInv
<1>2. Handed(tx, sel) => \A i \in Ordinal : Owned(tx.queue[sel[i]])
  <2> SUFFICES ASSUME Handed(tx, sel), NEW i \in Ordinal PROVE Owned(tx.queue[sel[i]])
    OBVIOUS
  <2>1. ~Untouched(tx)
    BY DEF Untouched, Handed, Ordinal
  <2>2. sel[i] \in Token /\ (sel[i] = sel[1] \/ sel[i] = sel[2])
    BY DEF Handed, TwoTokens, Ordinal
  <2>3. tx.queue[sel[i]] = ClaimTrackingItem(db.queue[sel[i]], at)
    BY <1>1, <2>1, <2>2 DEF Claimed
  <2>4. db.queue[sel[i]] \in Seq(Row) /\ at \in Nat
    BY <2>2, TypeFacts
  <2> QED BY <2>3, <2>4, ClaimFacts
<1>3. TypeOK'
  BY <1>1 DEF HandInv, TypeOK, Place
<1> QED BY <1>1, <1>2, <1>3
        DEF HandInv, WorkInv, HandoffInv, LifecycleInv, ClosingInv, Executing, Closing

-----------------------------------------------------------------------------
(* The lifecycle *)

(* Jobs that are cancelled exist, and none of them is pending.               *)
LEMMA CancelFacts ==
  ASSUME NEW jobs \in [Ordinal -> JobState]
  PROVE  /\ CancelActive(jobs) \in [Ordinal -> JobState]
         /\ \A i \in Ordinal : /\ CancelActive(jobs)[i] # "PENDING"
                               /\ jobs[i] # "ABSENT" => CancelActive(jobs)[i] # "ABSENT"
BY DEF CancelActive, JobState

(* Steps that only write where the process is and how the campaign failed.   *)
LEMMA ReturnKeeps ==
  ASSUME HandInv, pc \in {"materialize", "lifecycle"}, pc' = "returned", failed' \in BOOLEAN,
         UNCHANGED <<now, db, tx, saved, at, facts, sel, cause, campaigns>>,
         failed' \/ \A i \in Ordinal : db.slots[i] \in {"SELECTED", "ABSENT"}
  PROVE  HandInv'
<1>1. TypeOK'
  BY DEF HandInv, TypeOK, Place
<1>2. \A i \in Ordinal : ToSettle(db, sel, i, failed')
  BY DEF ToSettle
<1> QED BY <1>1, <1>2
        DEF HandInv, WorkInv, HandoffInv, LifecycleInv, ClosingInv, Executing, Closing

(* Nothing is handed over to the factory.                                    *)
LEMMA NotMaterializedKeeps ==
  ASSUME HandInv, MaterializeRaises \/ NoActivation \/ FactoryRaises PROVE HandInv'
<1>1. /\ pc \in {"materialize", "lifecycle"} /\ pc' = "returned" /\ failed' \in BOOLEAN
      /\ UNCHANGED <<now, db, tx, saved, at, facts, sel, cause, campaigns>>
      /\ pc = "lifecycle" => failed'
  BY DEF MaterializeRaises, NoActivation, FactoryRaises, Goto
<1>2. pc = "materialize" => \A i \in Ordinal : db.slots[i] \in {"SELECTED", "ABSENT"}
  BY DEF HandInv, HandoffInv, LifecycleInv
<1> QED BY <1>1, <1>2, ReturnKeeps

(* The factory takes the batch over, the executor's jobs are cancelled.      *)
LEMMA MaterializeKeeps ==
  ASSUME HandInv, Materialize PROVE HandInv' /\ db'.queue = db.queue
<1>1. /\ pc = "materialize" /\ pc' = "lifecycle" /\ BothSelected(db)
      /\ db' = [db EXCEPT !.first15m = CancelActive(@), !.mirror = TRUE] /\ tx' = db'
      /\ UNCHANGED <<now, saved, at, facts, sel, cause, failed, campaigns>>
  BY DEF Materialize, Goto
<1>2. db \in Record /\ Sound(db) /\ db.first15m \in [Ordinal -> JobState]
  BY TypeFacts DEF Record
<1>3. /\ db'.queue = db.queue /\ db'.work = db.work /\ db'.jobs = db.jobs
      /\ db'.slots = db.slots /\ db'.first15m = CancelActive(db.first15m)
  BY <1>1, <1>2 DEF Record
<1>4. db' \in Record
  BY <1>1, <1>2, CancelFacts DEF Record
<1>5. Handed(db, sel)
  BY <1>1 DEF HandInv, HandoffInv, Untouched, BothSelected, Ordinal
<1>6. Handed(db', sel)
  BY <1>2, <1>3, <1>5, CancelFacts DEF Handed
<1>7. Sound(db') /\ Running(db') = {}
  BY <1>2, <1>3, CancelFacts DEF Sound, Parity, Running, HandInv, WorkInv
<1>8. TypeOK'
  BY <1>1, <1>4 DEF HandInv, TypeOK, Place
<1>9. \A i \in Ordinal : Owned(db'.queue[sel[i]])
  BY <1>1, <1>3, <1>5 DEF HandInv, LifecycleInv
<1> QED BY <1>1, <1>3, <1>6, <1>7, <1>8, <1>9
        DEF HandInv, WorkInv, HandoffInv, LifecycleInv, ClosingInv, Executing, Closing

(* A slot goes on to its first hour.                                         *)
LEMMA ContinueSlotKeeps ==
  ASSUME HandInv, NEW i \in Ordinal, ContinueSlot(i) PROVE HandInv' /\ db'.queue = db.queue
<1>1. /\ pc = "lifecycle" /\ pc' = "lifecycle"
      /\ db' = [db EXCEPT !.slots[i] = "WINDOW_1H_CONTINUING"] /\ tx' = db'
      /\ UNCHANGED <<now, saved, at, facts, sel, cause, failed, campaigns>>
  BY DEF ContinueSlot
<1>2. db \in Record /\ Sound(db) /\ Handed(db, sel)
  BY <1>1, TypeFacts DEF HandInv, LifecycleInv
<1>3. /\ db'.queue = db.queue /\ db'.work = db.work /\ db'.jobs = db.jobs
      /\ db'.first15m = db.first15m /\ db'.mirror = db.mirror
      /\ db'.slots = [db.slots EXCEPT ![i] = "WINDOW_1H_CONTINUING"]
  BY <1>1, <1>2 DEF Record
<1>4. db' \in Record
  BY <1>1, <1>2 DEF Record, SlotState
<1>5. Handed(db', sel)
  BY <1>2, <1>3 DEF Handed, Record
<1>6. Sound(db') /\ Running(db') = {}
  BY <1>2, <1>3 DEF Sound, Parity, Running, HandInv, WorkInv
<1>7. TypeOK'
  BY <1>1, <1>4 DEF HandInv, TypeOK, Place
<1>8. \A j \in Ordinal : Owned(db'.queue[sel[j]])
  BY <1>1, <1>2, <1>3 DEF HandInv, LifecycleInv
<1> QED BY <1>1, <1>3, <1>5, <1>6, <1>7, <1>8
        DEF HandInv, WorkInv, HandoffInv, LifecycleInv, ClosingInv, Executing, Closing

(* A token the factory lets go is owned no more.                             *)
LEMMA DispositionFacts ==
  ASSUME NEW rows \in Seq(Row), RowsOK(rows), NEW main \in BOOLEAN, now \in Nat
  PROVE  /\ Disposition(rows, main) \in Seq(Row) /\ RowsOK(Disposition(rows, main))
         /\ ~Owned(Disposition(rows, main))
         /\ Len(Disposition(rows, main)) = Len(rows)
         /\ Owned(rows) =>
              Last(Disposition(rows, main)) =
                IF main THEN QueueRow("COOLDOWN", now + Cooldown, now)
                        ELSE QueueRow("SKIPPED", Last(rows).next_check_at, now)
<1>1. /\ now + Cooldown \in Nat \cup {None} /\ now + Cooldown # None /\ None \in Nat \cup {None}
      /\ "COOLDOWN" \in QueueStatus /\ "SKIPPED" \in QueueStatus
      /\ "QUEUED" \in ActiveStatus \ {"COOLDOWN"} /\ "QUEUED" \in ActiveStatus \ {"SKIPPED"}
      /\ "QUEUED" \in ActiveStatus
  BY CooldownAssumption DEF None, QueueStatus, ActiveStatus, LiveStatus, TerminalStatus
<1>2. CASE main
  <2> DEFINE new == UpdateLast(rows, ActiveStatus, "COOLDOWN", now + Cooldown, now)
  <2>1. Disposition(rows, main) = new
    BY <1>2 DEF Disposition
  <2>2. Owned(rows) => Applies(rows, ActiveStatus, "COOLDOWN")
    BY <1>1 DEF Owned, Applies
  <2>3. /\ new \in Seq(Row) /\ Len(new) = Len(rows)
        /\ Applies(rows, ActiveStatus, "COOLDOWN") =>
             Last(new) = QueueRow("COOLDOWN", IF now + Cooldown = None THEN Last(rows).next_check_at
                                          ELSE now + Cooldown, now)
    BY <1>1, UpdateFacts
  <2>4. RowsOK(new) /\ ~Owned(new)
    BY <1>1, UpdateKeepsRowsOK
  <2> HIDE DEF new
  <2> QED BY <1>1, <1>2, <2>1, <2>2, <2>3, <2>4
<1>3. CASE ~main
  <2> DEFINE new == UpdateLast(rows, ActiveStatus, "SKIPPED", None, now)
  <2>1. Disposition(rows, main) = new
    BY <1>3 DEF Disposition
  <2>2. Owned(rows) => Applies(rows, ActiveStatus, "SKIPPED")
    BY <1>1 DEF Owned, Applies
  <2>3. /\ new \in Seq(Row) /\ Len(new) = Len(rows)
        /\ Applies(rows, ActiveStatus, "SKIPPED") =>
             Last(new) = QueueRow("SKIPPED", Last(rows).next_check_at, now)
    <3> DEFINE NoExpiry == None
    <3>1. NoExpiry \in Nat \cup {None} /\ (NoExpiry = None)
      OBVIOUS
    <3>2. new = UpdateLast(rows, ActiveStatus, "SKIPPED", NoExpiry, now)
      OBVIOUS
    <3> HIDE DEF NoExpiry, new
    <3> QED BY <1>1, <3>1, <3>2, UpdateFacts
  <2>4. RowsOK(new) /\ ~Owned(new)
    BY <1>1, UpdateKeepsRowsOK
  <2> HIDE DEF new
  <2> QED BY <1>1, <1>3, <2>1, <2>2, <2>3, <2>4
<1> QED BY <1>2, <1>3

(* Both tokens are let go, the others are left alone.                        *)
Disposed(old, new, s) ==
  \A t \in Token :
    IF t = s[1] \/ t = s[2]
    THEN \E main \in BOOLEAN : new[t] = Disposition(old[t], main)
    ELSE new[t] = old[t]

(* The reconciliation of the factory, when it finds its batch.               *)
LEMMA PostCycleKeeps ==
  ASSUME HandInv, PostCycle
  PROVE  /\ HandInv'
         /\ db'.queue = db.queue \/ (Handed(db, sel) /\ Disposed(db.queue, db'.queue, sel)
                                     /\ \A i \in Ordinal : Owned(db.queue[sel[i]]))
<1>1. /\ pc = "lifecycle" /\ pc' = "returned" /\ failed' \in BOOLEAN
      /\ UNCHANGED <<now, saved, at, facts, sel, cause, campaigns>>
  BY DEF PostCycle, Goto
<1>2. CASE BothSelected(db) /\ UNCHANGED <<db, tx>>
  BY <1>1, <1>2, ReturnKeeps DEF BothSelected
<1>3. ASSUME NEW main \in [Ordinal -> BOOLEAN],
             db' = [db EXCEPT
               !.queue = [t \in Token |->
                  IF \E i \in Ordinal : sel[i] = t
                  THEN Disposition(@[t], main[CHOOSE i \in Ordinal : sel[i] = t])
                  ELSE @[t]],
               !.first15m = CancelActive(@)],
             tx' = db'
      PROVE  /\ HandInv'
             /\ Handed(db, sel) /\ Disposed(db.queue, db'.queue, sel)
             /\ \A i \in Ordinal : Owned(db.queue[sel[i]])
  <2> DEFINE queue == [t \in Token |->
                  IF \E i \in Ordinal : sel[i] = t
                  THEN Disposition(db.queue[t], main[CHOOSE i \in Ordinal : sel[i] = t])
                  ELSE db.queue[t]]
  <2>1. /\ db \in Record /\ Sound(db) /\ Handed(db, sel) /\ now \in Nat
        /\ db.queue \in [Token -> Seq(Row)]
        /\ \A t \in Token : db.queue[t] \in Seq(Row) /\ RowsOK(db.queue[t])
        /\ \A i \in Ordinal : Owned(db.queue[sel[i]])
        /\ db.first15m \in [Ordinal -> JobState]
    BY <1>1, TypeFacts DEF HandInv, LifecycleInv, Record
  <2>2. \A t \in Token : IF t = sel[1] \/ t = sel[2]
          THEN \E b \in BOOLEAN : queue[t] = Disposition(db.queue[t], b)
          ELSE queue[t] = db.queue[t]
    <3> SUFFICES ASSUME NEW t \in Token
                 PROVE  IF t = sel[1] \/ t = sel[2]
                        THEN \E b \in BOOLEAN : queue[t] = Disposition(db.queue[t], b)
                        ELSE queue[t] = db.queue[t]
      OBVIOUS
    <3>1. CASE \E i \in Ordinal : sel[i] = t
      <4>1. main[CHOOSE i \in Ordinal : sel[i] = t] \in BOOLEAN
        BY <3>1
      <4>2. t = sel[1] \/ t = sel[2]
        BY <3>1 DEF Ordinal
      <4> QED BY <3>1, <4>1, <4>2
    <3>2. CASE ~\E i \in Ordinal : sel[i] = t
      <4>1. t # sel[1] /\ t # sel[2]
        BY <3>2 DEF Ordinal
      <4> QED BY <3>2, <4>1
    <3> QED BY <3>1, <3>2
  <2>3. /\ db'.queue = queue /\ db'.work = db.work /\ db'.jobs = db.jobs
        /\ db'.slots = db.slots /\ db'.first15m = CancelActive(db.first15m)
        /\ db'.mirror = db.mirror
    BY <1>3, <2>1 DEF Record
  <2>4. queue = [t \in Token |-> queue[t]]
    OBVIOUS
  <2> HIDE DEF queue
  <2>5. \A t \in Token : /\ queue[t] \in Seq(Row) /\ RowsOK(queue[t])
                         /\ Len(queue[t]) = Len(db.queue[t])
                         /\ (t = sel[1] \/ t = sel[2]) => ~Owned(queue[t])
    BY <2>1, <2>2, DispositionFacts
  <2>6. queue \in [Token -> Seq(Row)]
    BY <2>4, <2>5
  <2>7. db' = [db EXCEPT !.queue = queue, !.first15m = CancelActive(@)]
    BY <1>3 DEF queue
  <2>8. db' \in Record
    BY <2>1, <2>6, <2>7, CancelFacts DEF Record, Row
  <2>9. \A i \in Ordinal : sel[i] \in Token /\ (sel[i] = sel[1] \/ sel[i] = sel[2])
    BY <2>1 DEF Handed, TwoTokens, Ordinal
  <2>10. Handed(db', sel)
    <3>1. \A i \in Ordinal : db'.queue[sel[i]] # << >>
      <4> SUFFICES ASSUME NEW i \in Ordinal PROVE db'.queue[sel[i]] # << >>
        OBVIOUS
      <4>1. db.queue[sel[i]] # << >> /\ db.queue[sel[i]] \in Seq(Row)
        BY <2>1, <2>9 DEF Handed
      <4>2. Len(db.queue[sel[i]]) # 0
        BY <4>1
      <4> QED BY <2>3, <2>5, <2>9, <4>2
    <3> QED BY <2>1, <2>3, <3>1, CancelFacts DEF Handed
  <2>11. Sound(db') /\ Running(db') = {}
    BY <2>1, <2>3, <2>5, CancelFacts DEF Sound, Parity, Running, HandInv, WorkInv
  <2>12. \A i \in Ordinal : ToSettle(db', sel, i, failed')
    BY <2>3, <2>5, <2>9 DEF ToSettle
  <2>13. TypeOK'
    BY <1>1, <1>3, <2>8 DEF HandInv, TypeOK, Place
  <2>14. HandInv'
    BY <1>1, <1>3, <2>10, <2>11, <2>12, <2>13
    DEF HandInv, WorkInv, HandoffInv, LifecycleInv, ClosingInv, Executing, Closing
  <2>15. Disposed(db.queue, db'.queue, sel)
    BY <2>2, <2>3 DEF Disposed
  <2> QED BY <2>1, <2>14, <2>15
<1> QED BY <1>2, <1>3 DEF PostCycle

-----------------------------------------------------------------------------
(* The closure *)

(* The cleanup finds no open work.                                           *)
LEMMA CleanupKeeps ==
  ASSUME HandInv, Cleanup PROVE HandInv' /\ db'.queue = db.queue
<1> DEFINE mid == [db EXCEPT !.jobs = CancelActive(@)]
           done == TerminalizeWork(mid, Running(db), "FAILED")
<1>1. /\ pc = "returned" /\ pc' = "reconcile" /\ tx' = db'
      /\ db' = [done EXCEPT !.batch = IF @ = "DISCOVERING" THEN "TERMINAL_FAILED" ELSE @,
                            !.owner = "TERMINAL"]
      /\ UNCHANGED <<now, saved, at, facts, sel, cause, failed, campaigns>>
  BY DEF Cleanup, Goto
<1>2. /\ db \in Record /\ Sound(db) /\ Parity(db) /\ Running(db) = {}
      /\ \A i \in Ordinal : ToSettle(db, sel, i, failed)
      /\ Untouched(db) \/ Handed(db, sel)
  BY <1>1, TypeFacts DEF HandInv, WorkInv, HandoffInv, ClosingInv
<1>3. \A w \in Work : db.jobs[w] # "PENDING"
  BY <1>2 DEF Parity, Running, Record, WorkState
<1>4. CancelActive(db.jobs) = db.jobs
  BY <1>2, <1>3 DEF CancelActive, Record
<1>5. mid = db
  BY <1>2, <1>4 DEF Record
<1> HIDE DEF mid
<1>6. /\ done \in Record /\ Alike(done, db) /\ Parity(done) /\ Running(done) = {}
      /\ \A w \in Work : done.work[w] = db.work[w]
  BY <1>2, <1>5, TerminalizeFacts
<1> HIDE DEF done
<1>7. /\ db' \in Record /\ db'.queue = db.queue /\ db'.slots = db.slots
      /\ db'.first15m = db.first15m /\ db'.mirror = db.mirror /\ db'.owner = "TERMINAL"
      /\ db'.work = done.work /\ db'.jobs = done.jobs
  BY <1>1, <1>6 DEF Record, Alike
<1>8. Sound(db') /\ Running(db') = {}
  BY <1>2, <1>6, <1>7 DEF Sound, Parity, Running
<1>9. \A i \in Ordinal : db'.work[Handoff[i]] = db.work[Handoff[i]]
  BY <1>6, <1>7, WorkNames DEF Ordinal
<1>10. Untouched(db') \/ Handed(db', sel)
  BY <1>2, <1>7, <1>9 DEF Untouched, Handed
<1>11. \A i \in Ordinal : ToSettle(db', sel, i, failed)
  BY <1>2, <1>7 DEF ToSettle
<1>12. TypeOK'
  BY <1>1, <1>7 DEF HandInv, TypeOK, Place, Closing
<1> QED BY <1>1, <1>7, <1>8, <1>10, <1>11, <1>12
        DEF HandInv, WorkInv, HandoffInv, LifecycleInv, ClosingInv, Executing, Closing

(* The reconciliation starts from what is committed.                         *)
LEMMA OpenReconciliationKeeps ==
  ASSUME HandInv, OpenReconciliation PROVE HandInv'
<1>1. /\ pc = "reconcile" /\ pc' = "close1" /\ tx' = ReconcileWork(db)
      /\ UNCHANGED <<now, db, saved, at, facts, sel, cause, failed, campaigns>>
      /\ db \in Record /\ Sound(db) /\ Parity(db)
      /\ db.owner = "TERMINAL"
      /\ Untouched(db) \/ Handed(db, sel)
      /\ Running(db) = {}
  BY TypeFacts DEF OpenReconciliation, Goto, HandInv, WorkInv, HandoffInv, ClosingInv, Closing
<1>2. /\ tx' \in Record /\ Alike(tx', db) /\ Parity(tx') /\ Running(tx') = {}
      /\ \A w \in Work : tx'.work[w] = IF db.work[w] = "RUNNING" THEN "CANCELLED" ELSE db.work[w]
  BY <1>1, ReconcileFacts
<1>3. \A i \in Ordinal : (tx'.work[Handoff[i]] = "SUCCEEDED") <=> (db.work[Handoff[i]] = "SUCCEEDED")
  BY <1>2, WorkNames DEF Ordinal
<1>4. (Untouched(tx') \/ Handed(tx', sel)) /\ Sound(tx')
  BY <1>1, <1>2, <1>3, AlikeSound DEF Untouched, Handed, Alike
<1>5. Skips(db.queue, tx'.queue)
  BY <1>2 DEF Skips, Alike
<1>6. TypeOK'
  BY <1>1, <1>2 DEF HandInv, TypeOK, Place, Closing
<1> QED BY <1>1, <1>2, <1>4, <1>5, <1>6
        DEF Alike, HandInv, WorkInv, HandoffInv, LifecycleInv, ClosingInv, Executing, Closing

(* A token that is not owned is not owned when others are let go.            *)
LEMMA SkipsStay ==
  ASSUME NEW old, NEW new, Skips(old, new), NEW t \in Token
  PROVE  /\ ~Owned(old[t]) => ~Owned(new[t])
         /\ Owned(new[t]) => new[t] = old[t]
BY DEF Skips, Owned

(* A queued row that the closure skips.                                      *)
LEMMA SkipFacts ==
  ASSUME NEW rows \in Seq(Row), RowsOK(rows), NEW a \in Nat
  PROVE  /\ UpdateLast(rows, {"QUEUED"}, "SKIPPED", None, a) \in Seq(Row)
         /\ Len(UpdateLast(rows, {"QUEUED"}, "SKIPPED", None, a)) = Len(rows)
         /\ RowsOK(UpdateLast(rows, {"QUEUED"}, "SKIPPED", None, a))
         /\ ~Owned(UpdateLast(rows, {"QUEUED"}, "SKIPPED", None, a))
         /\ \/ UpdateLast(rows, {"QUEUED"}, "SKIPPED", None, a) = rows
            \/ /\ Owned(rows)
               /\ Last(UpdateLast(rows, {"QUEUED"}, "SKIPPED", None, a)).status = "SKIPPED"
<1> DEFINE NoExpiry == None
           new == UpdateLast(rows, {"QUEUED"}, "SKIPPED", NoExpiry, a)
<1>1. /\ NoExpiry \in Nat \cup {None} /\ "SKIPPED" \in QueueStatus
      /\ "SKIPPED" \in {"COOLDOWN", "SKIPPED"} /\ "QUEUED" \in {"QUEUED"}
  BY DEF QueueStatus, TerminalStatus
<1> HIDE DEF NoExpiry
<1>2. /\ new \in Seq(Row) /\ Len(new) = Len(rows)
      /\ ~Applies(rows, {"QUEUED"}, "SKIPPED") => new = rows
      /\ Applies(rows, {"QUEUED"}, "SKIPPED") =>
           Last(new) = QueueRow("SKIPPED", IF NoExpiry = None THEN Last(rows).next_check_at
                                           ELSE NoExpiry, a)
  BY <1>1, UpdateFacts
<1>3. RowsOK(new) /\ ~Owned(new)
  BY <1>1, UpdateKeepsRowsOK
<1> HIDE DEF new
<1>4. Applies(rows, {"QUEUED"}, "SKIPPED") => Owned(rows) /\ Last(new).status = "SKIPPED"
  BY <1>2 DEF QueueRow, Applies, Owned
<1>5. new = UpdateLast(rows, {"QUEUED"}, "SKIPPED", None, a)
  BY DEF new, NoExpiry
<1> QED BY <1>2, <1>3, <1>4, <1>5

(* What closing one slot does to the open transaction.                       *)
LEMMA CloseTx ==
  ASSUME HandInv, pc \in {"close1", "close2"}, NEW i \in Ordinal,
         UNCHANGED <<now, sel, failed>>,
         tx' = IF tx.slots[i] = "ABSENT" THEN tx
               ELSE [tx EXCEPT !.queue[sel[i]] = UpdateLast(@, {"QUEUED"}, "SKIPPED", None, now),
                               !.slots[i] = IF @ = "SELECTED" THEN "MANUAL_REVIEW" ELSE @]
  PROVE  /\ tx' \in Record /\ Sound(tx') /\ Running(tx') = {} /\ tx'.owner = "TERMINAL"
         /\ Untouched(tx') \/ Handed(tx', sel)
         /\ Skips(db.queue, tx'.queue)
         /\ Settled(tx', sel, i)
         /\ \A j \in Ordinal : j # i =>
              /\ tx'.slots[j] = tx.slots[j]
              /\ Settled(tx, sel, j) => Settled(tx', sel, j)
<1>1. /\ tx \in Record /\ Sound(tx) /\ Running(tx) = {} /\ tx.owner = "TERMINAL"
      /\ Untouched(tx) \/ Handed(tx, sel)
      /\ Skips(db.queue, tx.queue) /\ now \in Nat
      /\ tx.queue \in [Token -> Seq(Row)]
      /\ \A t \in Token : tx.queue[t] \in Seq(Row) /\ RowsOK(tx.queue[t])
  BY TypeFacts DEF HandInv, WorkInv, ClosingInv, Closing
<1>2. CASE tx.slots[i] = "ABSENT"
  BY <1>1, <1>2 DEF Settled
<1>3. CASE tx.slots[i] # "ABSENT"
  <2> DEFINE new == UpdateLast(tx.queue[sel[i]], {"QUEUED"}, "SKIPPED", None, now)
  <2>1. Handed(tx, sel) /\ sel[i] \in Token
    BY <1>1, <1>3 DEF Untouched, Handed, TwoTokens, Ordinal
  <2>2. /\ new \in Seq(Row) /\ Len(new) = Len(tx.queue[sel[i]])
        /\ RowsOK(new) /\ ~Owned(new)
        /\ new = tx.queue[sel[i]] \/ (Owned(tx.queue[sel[i]]) /\ Last(new).status = "SKIPPED")
    <3>1. tx.queue[sel[i]] \in Seq(Row) /\ RowsOK(tx.queue[sel[i]])
      BY <1>1, <2>1
    <3> QED BY <1>1, <3>1, SkipFacts
  <2>3. new # << >> <=> tx.queue[sel[i]] # << >>
    <3>1. tx.queue[sel[i]] \in Seq(Row)
      BY <1>1, <2>1
    <3> HIDE DEF new
    <3> QED BY <2>2, <3>1
  <2>4. /\ tx'.queue = [tx.queue EXCEPT ![sel[i]] = new]
        /\ tx'.slots = [tx.slots EXCEPT ![i] = IF @ = "SELECTED" THEN "MANUAL_REVIEW" ELSE @]
        /\ tx'.work = tx.work /\ tx'.jobs = tx.jobs /\ tx'.first15m = tx.first15m
        /\ tx'.mirror = tx.mirror /\ tx'.owner = tx.owner /\ tx'.batch = tx.batch
        /\ tx' = [tx EXCEPT !.queue = [tx.queue EXCEPT ![sel[i]] = new],
                            !.slots = [tx.slots EXCEPT ![i] =
                               IF @ = "SELECTED" THEN "MANUAL_REVIEW" ELSE @]]
    BY <1>1, <1>3, <2>1 DEF Record
  <2> HIDE DEF new
  <2>5. tx' \in Record
    <3>1. [tx.queue EXCEPT ![sel[i]] = new] \in [Token -> Seq(Row)]
      BY <1>1, <2>2
    <3>2. [tx.slots EXCEPT ![i] = IF @ = "SELECTED" THEN "MANUAL_REVIEW" ELSE @]
             \in [Ordinal -> SlotState]
      BY <1>1 DEF Record, SlotState
    <3> QED BY <1>1, <2>4, <3>1, <3>2 DEF Record, Row
  <2>6. \A t \in Token : tx'.queue[t] = IF t = sel[i] THEN new ELSE tx.queue[t]
    BY <1>1, <2>4
  <2>7. Sound(tx') /\ Running(tx') = {}
    BY <1>1, <2>2, <2>4, <2>6 DEF Sound, Parity, Running
  <2>8. \A j \in Ordinal : tx'.slots[j] =
          IF j = i THEN (IF tx.slots[i] = "SELECTED" THEN "MANUAL_REVIEW" ELSE tx.slots[i])
                   ELSE tx.slots[j]
    BY <1>1, <2>4 DEF Record
  <2>9. \A j \in Ordinal : sel[j] \in Token
    BY <2>1 DEF Handed, TwoTokens, Ordinal
  <2>10. Handed(tx', sel)
    BY <1>3, <2>1, <2>3, <2>4, <2>6, <2>8, <2>9 DEF Handed
  <2>11. Skips(db.queue, tx'.queue)
    <3> SUFFICES ASSUME NEW t \in Token
                 PROVE  \/ tx'.queue[t] = db.queue[t]
                        \/ (Owned(db.queue[t]) /\ tx'.queue[t] # << >>
                            /\ Last(tx'.queue[t]).status = "SKIPPED")
      BY DEF Skips
    <3>1. CASE tx'.queue[t] = tx.queue[t]
      BY <1>1, <3>1 DEF Skips
    <3>2. CASE tx'.queue[t] # tx.queue[t]
      <4>1. t = sel[i] /\ Owned(tx.queue[t]) /\ tx'.queue[t] = new
            /\ Last(new).status = "SKIPPED"
        BY <2>2, <2>6, <3>2
      <4>2. tx.queue[t] = db.queue[t]
        BY <1>1, <4>1, SkipsStay
      <4>3. new # << >>
        BY <2>3, <4>1 DEF Owned
      <4> QED BY <4>1, <4>2, <4>3
    <3> QED BY <3>1, <3>2
  <2>12. Settled(tx', sel, i)
    BY <2>1, <2>2, <2>6, <2>8 DEF Settled
  <2>13. \A j \in Ordinal : j # i =>
           /\ tx'.slots[j] = tx.slots[j]
           /\ Settled(tx, sel, j) => Settled(tx', sel, j)
    BY <2>2, <2>6, <2>8, <2>9 DEF Settled
  <2> QED BY <1>1, <2>4, <2>5, <2>7, <2>10, <2>11, <2>12, <2>13
<1> QED BY <1>2, <1>3

(* A token that needs no more closing stays so while the other is closed.    *)
LEMMA ToSettleStays ==
  ASSUME NEW old, NEW new, NEW s, NEW i \in Ordinal, NEW f, ToSettle(old, s, i, f),
         new.slots[i] = old.slots[i], Skips(old.queue, new.queue),
         Untouched(new) \/ Handed(new, s)
  PROVE  ToSettle(new, s, i, f)
<1>1. CASE new.slots[i] = "ABSENT"
  BY <1>1 DEF ToSettle
<1>2. CASE new.slots[i] # "ABSENT"
  <2>1. s[i] \in Token
    BY <1>2 DEF Untouched, Handed, TwoTokens, Ordinal
  <2> QED BY <2>1, SkipsStay DEF ToSettle
<1> QED BY <1>1, <1>2

(* Closing the first slot commits it when it was still selected.             *)
LEMMA CloseFirstKeeps ==
  ASSUME HandInv, CloseSlot(1)
  PROVE  HandInv' /\ Skips(db.queue, db'.queue)
<1>1. /\ pc = "close1" /\ pc' = "close2"
      /\ db' = IF tx.slots[1] = "SELECTED" THEN tx' ELSE db
      /\ UNCHANGED <<now, saved, at, facts, sel, cause, failed, campaigns>>
  BY DEF CloseSlot, AtClose, Goto
<1>2. /\ tx' \in Record /\ Sound(tx') /\ Running(tx') = {} /\ tx'.owner = "TERMINAL"
      /\ Untouched(tx') \/ Handed(tx', sel)
      /\ Skips(db.queue, tx'.queue)
      /\ Settled(tx', sel, 1) /\ tx'.slots[2] = tx.slots[2]
  <2>1. 1 \in Ordinal /\ 2 \in Ordinal /\ 1 # 2
    BY DEF Ordinal
  <2> QED BY <1>1, <2>1, CloseTx DEF CloseSlot
<1>3. /\ tx.slots = db.slots /\ db.owner = "TERMINAL" /\ Running(db) = {} /\ Sound(db)
      /\ Untouched(db) \/ Handed(db, sel)
      /\ ToSettle(db, sel, 1, failed) /\ ToSettle(db, sel, 2, failed)
  BY <1>1 DEF HandInv, ClosingInv, WorkInv, HandoffInv, Ordinal, Closing
<1>4. CASE tx.slots[1] = "SELECTED"
  <2>1. db' = tx'
    BY <1>1, <1>4
  <2>2. ToSettle(tx', sel, 2, failed)
    BY <1>2, <1>3, ToSettleStays DEF Ordinal
  <2>3. SettledOrFailed(tx', sel, 1, failed) /\ Skips(tx'.queue, tx'.queue)
    BY <1>2 DEF SettledOrFailed, Skips
  <2>4. TypeOK'
    BY <1>1, <1>2, <2>1 DEF HandInv, TypeOK, Place, Closing
  <2> QED BY <1>1, <1>2, <2>1, <2>2, <2>3, <2>4
          DEF HandInv, WorkInv, HandoffInv, LifecycleInv, ClosingInv, Executing, Closing
<1>5. CASE tx.slots[1] # "SELECTED"
  <2>1. db' = db
    BY <1>1, <1>5
  <2>2. SettledOrFailed(db, sel, 1, failed)
    BY <1>3, <1>5 DEF SettledOrFailed, Settled, ToSettle
  <2>3. Skips(db.queue, db.queue)
    BY DEF Skips
  <2>4. TypeOK'
    BY <1>1, <1>2, <2>1 DEF HandInv, TypeOK, Place, Closing
  <2> QED BY <1>1, <1>2, <1>3, <2>1, <2>2, <2>3, <2>4
          DEF HandInv, WorkInv, HandoffInv, LifecycleInv, ClosingInv, Executing, Closing
<1> QED BY <1>4, <1>5

(* Closing the second commits what the first left open, too.                 *)
LEMMA CloseSecondKeeps ==
  ASSUME HandInv, CloseSlot(2)
  PROVE  HandInv' /\ Skips(db.queue, db'.queue)
<1>1. /\ pc = "close2" /\ pc' = "close3"
      /\ db' = IF tx.slots[2] = "SELECTED" THEN tx' ELSE db
      /\ UNCHANGED <<now, saved, at, facts, sel, cause, failed, campaigns>>
  BY DEF CloseSlot, AtClose, Goto
<1>2. /\ Settled(tx, sel, 1) /\ SettledOrFailed(db, sel, 1, failed)
      /\ tx.slots[2] = db.slots[2] /\ db.owner = "TERMINAL" /\ Running(db) = {} /\ Sound(db)
      /\ Untouched(db) \/ Handed(db, sel)
      /\ ToSettle(db, sel, 2, failed)
  BY <1>1 DEF HandInv, ClosingInv, WorkInv, HandoffInv, Closing
<1>3. /\ tx' \in Record /\ Sound(tx') /\ Running(tx') = {} /\ tx'.owner = "TERMINAL"
      /\ Untouched(tx') \/ Handed(tx', sel)
      /\ Skips(db.queue, tx'.queue)
      /\ Settled(tx', sel, 1) /\ Settled(tx', sel, 2)
  <2>1. 1 \in Ordinal /\ 2 \in Ordinal /\ 1 # 2
    BY DEF Ordinal
  <2> QED BY <1>1, <1>2, <2>1, CloseTx DEF CloseSlot
<1>4. CASE tx.slots[2] = "SELECTED"
  <2>1. db' = tx'
    BY <1>1, <1>4
  <2>2. /\ \A i \in Ordinal : Settled(tx', sel, i) /\ SettledOrFailed(tx', sel, i, failed)
        /\ Skips(tx'.queue, tx'.queue)
    BY <1>3 DEF SettledOrFailed, Skips, Ordinal
  <2>3. TypeOK'
    BY <1>1, <1>3, <2>1 DEF HandInv, TypeOK, Place, Closing
  <2> QED BY <1>1, <1>3, <2>1, <2>2, <2>3
          DEF HandInv, WorkInv, HandoffInv, LifecycleInv, ClosingInv, Executing, Closing
<1>5. CASE tx.slots[2] # "SELECTED"
  <2>1. db' = db
    BY <1>1, <1>5
  <2>2. SettledOrFailed(db, sel, 2, failed)
    BY <1>2, <1>5 DEF SettledOrFailed, Settled, ToSettle
  <2>3. \A i \in Ordinal : Settled(tx', sel, i) /\ SettledOrFailed(db, sel, i, failed)
    BY <1>2, <1>3, <2>2 DEF Ordinal
  <2>4. Skips(db.queue, db.queue)
    BY DEF Skips
  <2>5. TypeOK'
    BY <1>1, <1>3, <2>1 DEF HandInv, TypeOK, Place, Closing
  <2> QED BY <1>1, <1>2, <1>3, <2>1, <2>3, <2>4, <2>5
          DEF HandInv, WorkInv, HandoffInv, LifecycleInv, ClosingInv, Executing, Closing
<1> QED BY <1>4, <1>5

(* The last transition commits or rolls back; only a campaign that did not   *)
(* fail, and has nothing left to commit for its tokens, is rolled back.      *)
LEMMA CloseOwnerKeeps ==
  ASSUME HandInv, CloseOwner
  PROVE  HandInv' /\ Skips(db.queue, db'.queue)
<1>1. /\ pc = "close3" /\ pc' = "closed"
      /\ UNCHANGED <<now, saved, at, facts, sel, cause, failed, campaigns>>
      /\ (db' = tx /\ tx' = tx) \/ (~failed /\ tx' = db /\ db' = db)
  BY DEF CloseOwner, Goto
<1>2. /\ \A i \in Ordinal : Settled(tx, sel, i) /\ SettledOrFailed(db, sel, i, failed)
      /\ tx.owner = "TERMINAL" /\ db.owner = "TERMINAL" /\ Skips(db.queue, tx.queue)
      /\ Untouched(tx) \/ Handed(tx, sel)
      /\ Running(tx) = {}
  BY <1>1 DEF HandInv, ClosingInv, WorkInv, Closing
<1>3. /\ db' = tx' /\ db'.owner = "TERMINAL" /\ db' \in {db, tx}
      /\ \A i \in Ordinal : Settled(db', sel, i)
  BY <1>1, <1>2 DEF SettledOrFailed
<1>4. Untouched(db') \/ Handed(db', sel)
  BY <1>1, <1>2 DEF HandInv, HandoffInv
<1>5. Skips(db.queue, db'.queue)
  BY <1>1, <1>2 DEF Skips
<1>6. TypeOK'
  BY <1>1, <1>3 DEF HandInv, TypeOK, Place, AtRest
<1> QED BY <1>1, <1>2, <1>3, <1>4, <1>5, <1>6
        DEF HandInv, WorkInv, HandoffInv, LifecycleInv, ClosingInv, Executing, Closing

(* What is not committed is gone.                                            *)
LEMMA CrashKeeps ==
  ASSUME HandInv, Crash PROVE HandInv'
<1>1. TypeOK'
  BY DEF Crash, Goto, HandInv, TypeOK, Place, AtRest
<1> QED BY <1>1
        DEF Crash, Goto, HandInv, WorkInv, HandoffInv, LifecycleInv, ClosingInv, Executing,
            Closing

-----------------------------------------------------------------------------
(* The invariant and the theorems *)

(* Every step keeps the invariant.                                           *)
LEMMA HandStep == HandInv /\ [Next]_vars => HandInv'
<1> SUFFICES ASSUME HandInv, [Next]_vars PROVE HandInv'
  OBVIOUS
<1>1. CASE UNCHANGED vars
  BY <1>1 DEF vars, HandInv, TypeOK, WorkInv, HandoffInv, LifecycleInv, ClosingInv
<1>2. CASE Execute
  <2>1. CASE SharedFault
    BY <2>1, CycleRaisesKeeps DEF SharedFault, Cause
  <2>2. CASE HandoffFault
    BY <2>2, ActivationFailsKeeps DEF HandoffFault, Cause
  <2>3. CASE \E i \in Ordinal : HandoffOneSlot(i)
    BY <2>3, FirstSlotKeeps, SecondSlotKeeps DEF Ordinal
  <2> QED BY <1>2, <2>1, <2>2, <2>3, RunIntakeKeeps, SelectTwoKeeps, ShortfallKeeps, PrepareKeeps,
             HandoffRefusedKeeps, CommitCycleKeeps DEF Execute
<1>3. CASE Drive
  BY <1>3, MaterializeKeeps, NotMaterializedKeeps, ContinueSlotKeeps, PostCycleKeeps DEF Drive
<1>4. CASE Close
  BY <1>4, CleanupKeeps, OpenReconciliationKeeps, CloseFirstKeeps, CloseSecondKeeps,
     CloseOwnerKeeps DEF Close, Ordinal
<1> QED BY <1>1, <1>2, <1>3, <1>4, TickKeeps, LaunchKeeps, CrashKeeps DEF Next

(* The inductive invariant of discovery and handoff holds in every state.    *)
THEOREM HandoffInvariant == Spec => []HandInv
BY HandInit, HandStep, PTL DEF Spec

(* The rows hold only what the code writes.                                  *)
THEOREM TypeCorrect == Spec => []TypeOK
<1>1. HandInv => TypeOK
  BY DEF HandInv
<1> QED BY <1>1, HandoffInvariant, PTL

(* No older row of a token is ever live (claim_tracking_item appends and     *)
(* looks at the latest row alone).                                           *)
THEOREM OnlyTheLastRowIsLive == Spec => []OneLiveRow
<1>1. HandInv => OneLiveRow
  <2> SUFFICES ASSUME HandInv, NEW t \in Token
               PROVE  Live(db.queue[t]) \subseteq {Len(db.queue[t])}
    BY DEF OneLiveRow
  <2>1. db.queue[t] \in Seq(Row) /\ RowsOK(db.queue[t])
    BY TypeFacts
  <2> QED BY <2>1, LiveRows
<1> QED BY <1>1, HandoffInvariant, PTL

(* Both tokens are handed off or neither, wherever the cycle stops           *)
(* (_atomic_initial_two_slot_handoff).                                       *)
THEOREM ActivationIsAtomic == Spec => []ActivationAtomic
<1>1. HandInv => ActivationAtomic
  <2> SUFFICES ASSUME HandInv PROVE ActivationAtomic
    OBVIOUS
  <2>1. CASE Untouched(db)
    BY <2>1 DEF Untouched, ActivationAtomic, NotHandedOff
  <2>2. CASE Handed(db, sel)
    <3>1. sel # << >> /\ sel[1] # sel[2]
      BY <2>2 DEF Handed, TwoTokens
    <3> QED BY <2>2, <3>1 DEF Handed, ActivationAtomic, HandedOff
  <2> QED BY <2>1, <2>2 DEF HandInv, HandoffInv
<1> QED BY <1>1, HandoffInvariant, PTL

(* No discovery work is committed open, and its job ended as it did          *)
(* (scheduler_parity.py), whatever path ended the cycle.                     *)
THEOREM WorkAndJobAlwaysAgree == Spec => []WorkAndJobAgree
<1>1. HandInv => WorkAndJobAgree
  BY DEF HandInv, WorkInv, Sound, Parity, Running, WorkAndJobAgree
<1> QED BY <1>1, HandoffInvariant, PTL

(* What the gate let through can still be handed off at its slot.            *)
THEOREM SelectedAlwaysEligible == Spec => []SelectedStayEligible
<1>1. HandInv => SelectedStayEligible
  <2> SUFFICES ASSUME HandInv, NEW i \in Ordinal, AtSlot(i)
               PROVE  HandoffEligible(tx.queue[sel[i]], at)
    BY DEF SelectedStayEligible
  <2>1. /\ TwoTokens(sel) /\ Eligible(db.queue, sel, at)
        /\ i = 1 => tx.queue = db.queue
        /\ i = 2 => tx.queue = [db.queue EXCEPT ![sel[1]] = ClaimTrackingItem(@, at)]
        /\ db.queue \in [Token -> Seq(Row)]
    BY TypeFacts DEF HandInv, HandoffInv, AtSlot, Ordinal
  <2>2. tx.queue[sel[i]] = db.queue[sel[i]]
    BY <2>1 DEF TwoTokens, Ordinal
  <2> QED BY <2>1, <2>2 DEF Eligible
<1> QED BY <1>1, HandoffInvariant, PTL

(* A closed campaign owns no token, also when its last transition was rolled *)
(* back (reconcile_campaign_terminal).                                       *)
THEOREM ClosedCampaignsOwnNothing == Spec => []ClosedOwnsNothing
<1>1. HandInv => ClosedOwnsNothing
  <2> SUFFICES ASSUME HandInv, pc = "closed", NEW i \in Ordinal
               PROVE  /\ db.slots[i] # "SELECTED"
                      /\ db.slots[i] # "ABSENT" => Live(db.queue[sel[i]]) = {}
    BY DEF ClosedOwnsNothing
  <2>1. Settled(db, sel, i)
    BY DEF HandInv, ClosingInv
  <2>2. ASSUME db.slots[i] # "ABSENT" PROVE Live(db.queue[sel[i]]) = {}
    <3>1. sel[i] \in Token
      BY <2>2 DEF HandInv, HandoffInv, Untouched, Handed, TwoTokens, Ordinal
    <3>2. db.queue[sel[i]] \in Seq(Row) /\ RowsOK(db.queue[sel[i]])
      BY <3>1, TypeFacts
    <3> QED BY <2>1, <2>2, <3>2, LiveRows DEF Settled
  <2> QED BY <2>1, <2>2 DEF Settled
<1> QED BY <1>1, HandoffInvariant, PTL

(* What a closed campaign may still have active is a job of a handoff.       *)
LEMMA ClosedRest ==
  ASSUME HandInv, pc = "closed"
  PROVE  /\ \A w \in Work : db.jobs[w] # "PENDING" /\ db.work[w] # "RUNNING"
         /\ db.owner = "TERMINAL"
<1>1. Running(db) = {} /\ Sound(db) /\ db \in Record
  BY TypeFacts DEF HandInv, WorkInv
<1>2. \A w \in Work : db.work[w] # "RUNNING"
  BY <1>1 DEF Running
<1>3. \A w \in Work : db.jobs[w] # "PENDING"
  <2>1. \A w \in Work : db.work[w] \in WorkState /\ db.jobs[w] = db.work[w]
    BY <1>1, <1>2 DEF Record, Sound, Parity
  <2> QED BY <2>1 DEF WorkState
<1>4. db.owner = "TERMINAL"
  BY DEF HandInv, ClosingInv
<1> QED BY <1>2, <1>3, <1>4

(* A campaign the factory took over is closed without anything the next      *)
(* preflight would stumble over.                                             *)
THEOREM MaterializedAlwaysClosesQuiet == Spec => []MaterializedClosesQuiet
<1>1. HandInv => MaterializedClosesQuiet
  BY ClosedRest DEF MaterializedClosesQuiet, HandInv, Sound, NothingActive
<1> QED BY <1>1, HandoffInvariant, PTL

-----------------------------------------------------------------------------
(* What lingers after a closure *)

(* The jobs of a handoff: both pending in a batch nobody took over, or none. *)
Quiet(d) == \A i \in Ordinal : d.first15m[i] # "PENDING"

Activated(d) ==
  /\ ~d.mirror
  /\ \A i \in Ordinal : d.first15m[i] = "PENDING" /\ d.slots[i] \in {"SELECTED", "MANUAL_REVIEW"}

Left(d) == Quiet(d) \/ (failed /\ cause = "COMPLETED" /\ Activated(d))

(* They are activated by a handoff that nothing has failed yet, and outlive  *)
(* the materialization only where it failed the campaign.                    *)
LingerInv ==
  /\ pc \in {"intake", "select", "prepare", "slot1", "slot2"} => cause = "NONE"
  /\ pc = "slot2" => tx.first15m[1] = "PENDING"
  /\ pc = "commit" => Quiet(tx) \/ (cause = "NONE" /\ Activated(tx))
  /\ pc = "materialize" => Quiet(db) \/ (cause = "COMPLETED" /\ Activated(db))
  /\ pc = "lifecycle" => Quiet(db)
  /\ pc \in {"returned"} \cup Closing \cup {"closed"} => Left(db) /\ Left(tx)

(* Until the commit only the two handoffs make jobs, one each.               *)
LEMMA ExecuteLingers == HandInv /\ HandInv' /\ LingerInv /\ Execute => LingerInv'
<1> SUFFICES ASSUME HandInv, HandInv', LingerInv, Execute PROVE LingerInv'
  OBVIOUS
<1>1. \A d : Untouched(d) => Quiet(d)
  BY DEF Untouched, Quiet
<1>2. ASSUME NEW code, CycleRaises(code), pc \in Executing PROVE LingerInv'
  <2>1. pc' = "materialize" /\ db' = db /\ Untouched(db)
    BY <1>2 DEF CycleRaises, Goto, HandInv, HandoffInv
  <2>2. Quiet(db')
    BY <1>1, <2>1
  <2> QED BY <2>1, <2>2 DEF LingerInv, Closing
<1>3. ASSUME NEW code, ActivationFails(code), pc \in {"slot1", "slot2"} PROVE LingerInv'
  <2>1. /\ pc' = "commit" /\ tx' = BatchFailed(TerminalizeWork(saved, HandoffWork, "FAILED"))
        /\ Untouched(saved) /\ saved \in Record /\ Parity(saved)
        /\ Running(saved) = HandoffWork
    BY <1>3, TypeFacts DEF ActivationFails, Goto, HandInv, HandoffInv, TypeOK, WorkInv
  <2>2. tx'.first15m = saved.first15m
    <3>1. Alike(TerminalizeWork(saved, HandoffWork, "FAILED"), saved)
          /\ TerminalizeWork(saved, HandoffWork, "FAILED") \in Record
          /\ Parity(TerminalizeWork(saved, HandoffWork, "FAILED"))
      BY <2>1, TerminalizeFacts, WorkNames
    <3> QED BY <2>1, <3>1, BatchFailedFacts DEF Alike
  <2>3. Quiet(tx')
    BY <2>1, <2>2 DEF Untouched, Quiet
  <2> QED BY <2>1, <2>3 DEF LingerInv, Closing
<1>4. CASE RunIntake \/ SelectTwo
  <2>1. pc' \in {"select", "prepare"} /\ cause' = cause /\ pc \in {"intake", "select"}
    BY <1>4 DEF RunIntake, SelectTwo, Goto
  <2> QED BY <2>1 DEF LingerInv, Closing
<1>5. CASE Shortfall
  <2>1. /\ pc' = "commit" /\ tx' = BatchFailed(TerminalizeWork(tx, {"select"}, "FAILED"))
        /\ Untouched(tx) /\ tx \in Record /\ Parity(tx) /\ Running(tx) = {"select"}
    BY <1>5, TypeFacts DEF Shortfall, Goto, HandInv, HandoffInv, TypeOK, WorkInv
  <2>2. tx'.first15m = tx.first15m
    <3>1. Alike(TerminalizeWork(tx, {"select"}, "FAILED"), tx)
          /\ TerminalizeWork(tx, {"select"}, "FAILED") \in Record
          /\ Parity(TerminalizeWork(tx, {"select"}, "FAILED"))
      BY <2>1, TerminalizeFacts, WorkNames
    <3> QED BY <2>1, <3>1, BatchFailedFacts DEF Alike
  <2>3. Quiet(tx')
    BY <2>1, <2>2 DEF Untouched, Quiet
  <2> QED BY <2>1, <2>3 DEF LingerInv, Closing
<1>6. CASE PrepareHandoff
  <2>1. CASE WithinCeiling(tx)
    BY <1>6, <2>1 DEF PrepareHandoff, Goto, LingerInv, Closing
  <2>2. CASE ~WithinCeiling(tx)
    BY <1>2, <1>6, <2>2 DEF PrepareHandoff, Executing
  <2> QED BY <2>1, <2>2
<1>7. ASSUME NEW i \in Ordinal, HandoffOneSlot(i) PROVE LingerInv'
  <2> DEFINE claimed == [tx EXCEPT !.queue[sel[i]] = ClaimTrackingItem(@, at),
                                   !.first15m[i] = "PENDING", !.slots[i] = "SELECTED"]
  <2>1. /\ tx' = TerminalizeWork(claimed, {Handoff[i]}, "SUCCEEDED") /\ cause' = cause
        /\ tx \in Record /\ AtSlot(i) /\ pc' = <<"slot2", "commit">>[i]
    BY <1>7 DEF HandoffOneSlot, Goto, HandInv, TypeOK
  <2>2. /\ tx'.first15m = [tx.first15m EXCEPT ![i] = "PENDING"]
        /\ tx'.slots = [tx.slots EXCEPT ![i] = "SELECTED"] /\ tx'.mirror = tx.mirror
    BY <2>1 DEF TerminalizeWork, FollowWork, Record
  <2>3. tx.first15m \in [Ordinal -> JobState] /\ tx.slots \in [Ordinal -> SlotState]
    BY <2>1 DEF Record
  <2> HIDE DEF claimed
  <2>4. CASE i = 1
    <3>1. pc = "slot1" /\ pc' = "slot2"
      BY <2>1, <2>4 DEF AtSlot
    <3>2. tx'.first15m[1] = "PENDING"
      BY <2>2, <2>3, <2>4
    <3> QED BY <2>1, <3>1, <3>2 DEF LingerInv, Closing
  <2>5. CASE i = 2
    <3>1. pc = "slot2" /\ pc' = "commit"
      BY <2>1, <2>5 DEF AtSlot
    <3>2. /\ tx.first15m[1] = "PENDING" /\ tx.slots[1] = "SELECTED" /\ ~tx.mirror
          /\ cause = "NONE"
      BY <3>1 DEF LingerInv, HandInv, HandoffInv, HalfHanded
    <3>3. Activated(tx')
      BY <2>2, <2>3, <2>5, <3>2 DEF Activated, Ordinal
    <3> QED BY <2>1, <3>1, <3>2, <3>3 DEF LingerInv, Closing
  <2> QED BY <2>4, <2>5 DEF Ordinal
<1>8. ASSUME NEW i \in Ordinal, HandoffRefused(i) PROVE LingerInv'
  <2>1. pc \in {"slot1", "slot2"} /\ (CycleRaises("REQUALIFICATION") \/ ActivationFails("HANDOFF"))
    BY <1>8 DEF HandoffRefused, AtSlot, Ordinal
  <2> QED BY <1>2, <1>3, <2>1 DEF Executing
<1>9. CASE CommitCycle
  <2>1. /\ pc = "commit" /\ pc' = "materialize" /\ db' = tx
        /\ cause' = IF cause = "NONE" THEN "COMPLETED" ELSE cause
    BY <1>9 DEF CommitCycle, Goto
  <2> QED BY <2>1 DEF LingerInv, Closing, Quiet, Activated
<1>10. CASE SharedFault \/ HandoffFault
  BY <1>2, <1>3, <1>10 DEF SharedFault, HandoffFault
<1> QED BY <1>4, <1>5, <1>6, <1>7, <1>8, <1>9, <1>10 DEF Execute

(* The materialization cancels them or fails the campaign.                   *)
LEMMA DriveLingers == HandInv /\ HandInv' /\ LingerInv /\ Drive => LingerInv'
<1> SUFFICES ASSUME HandInv, HandInv', LingerInv, Drive PROVE LingerInv'
  OBVIOUS
<1>1. db \in Record /\ db.first15m \in [Ordinal -> JobState]
  BY TypeFacts DEF Record
<1>2. CASE Materialize
  <2>1. pc' = "lifecycle" /\ db' = [db EXCEPT !.first15m = CancelActive(@), !.mirror = TRUE]
    BY <1>2 DEF Materialize, Goto
  <2>2. db'.first15m = CancelActive(db.first15m)
    BY <1>1, <2>1 DEF Record
  <2> QED BY <1>1, <2>1, <2>2, CancelFacts DEF LingerInv, Closing, Quiet
<1>3. CASE MaterializeRaises \/ NoActivation \/ FactoryRaises
  <2>1. /\ pc' = "returned" /\ db' = db /\ tx' = tx /\ cause' = cause /\ tx = db
        /\ pc \in {"materialize", "lifecycle"}
    BY <1>3 DEF MaterializeRaises, NoActivation, FactoryRaises, Goto, HandInv, LifecycleInv
  <2>2. CASE Quiet(db)
    BY <2>1, <2>2 DEF LingerInv, Closing, Left, Quiet
  <2>3. CASE ~Quiet(db)
    <3>1. pc = "materialize" /\ cause = "COMPLETED" /\ Activated(db)
      BY <2>1, <2>3 DEF LingerInv
    <3>2. BothSelected(db)
      BY <2>1, <3>1 DEF HandInv, HandoffInv, Activated, BothSelected
    <3>3. failed' = TRUE
      BY <1>3, <3>1, <3>2 DEF MaterializeRaises, NoActivation, FactoryRaises
    <3>4. Left(db)'
      BY <2>1, <3>1, <3>3 DEF Left, Activated
    <3>5. tx' = db'
      BY <2>1
    <3> QED BY <2>1, <3>4, <3>5 DEF LingerInv, Closing, Left, Activated, Quiet
  <2> QED BY <2>2, <2>3
<1>4. ASSUME NEW i \in Ordinal, ContinueSlot(i) PROVE LingerInv'
  <2>1. /\ pc = "lifecycle" /\ pc' = "lifecycle"
        /\ db' = [db EXCEPT !.slots[i] = "WINDOW_1H_CONTINUING"]
    BY <1>4 DEF ContinueSlot
  <2>2. db'.first15m = db.first15m
    BY <1>1, <2>1 DEF Record
  <2> QED BY <2>1, <2>2 DEF LingerInv, Closing, Quiet
<1>5. CASE PostCycle
  <2>1. pc = "lifecycle" /\ pc' = "returned"
    BY <1>5 DEF PostCycle, Goto
  <2>2. tx = db /\ Quiet(db)
    BY <2>1 DEF HandInv, LifecycleInv, LingerInv
  <2>3. db' = tx' /\ Quiet(db')
    <3>1. CASE BothSelected(db) /\ UNCHANGED <<db, tx>>
      BY <2>2, <3>1 DEF Quiet
    <3>2. ASSUME NEW main \in [Ordinal -> BOOLEAN],
                 db' = [db EXCEPT
                   !.queue = [t \in Token |->
                      IF \E i \in Ordinal : sel[i] = t
                      THEN Disposition(@[t], main[CHOOSE i \in Ordinal : sel[i] = t])
                      ELSE @[t]],
                   !.first15m = CancelActive(@)],
                 tx' = db'
          PROVE  db' = tx' /\ Quiet(db')
      <4>1. db'.first15m = CancelActive(db.first15m)
        BY <1>1, <3>2 DEF Record
      <4>2. Quiet(db')
        BY <1>1, <4>1, CancelFacts DEF Quiet
      <4> QED BY <3>2, <4>2
    <3> QED BY <1>5, <3>1, <3>2 DEF PostCycle
  <2> QED BY <2>1, <2>3 DEF LingerInv, Closing, Left, Quiet
<1> QED BY <1>2, <1>3, <1>4, <1>5 DEF Drive

(* The closure leaves them as they are, and moves their slots to review.     *)
LEMMA CloseLingers == HandInv /\ HandInv' /\ LingerInv /\ Close => LingerInv'
<1> SUFFICES ASSUME HandInv, HandInv', LingerInv, Close PROVE LingerInv'
  OBVIOUS
<1>1. /\ db \in Record /\ tx \in Record /\ Left(db) /\ Left(tx) /\ failed' = failed /\ cause' = cause
  BY TypeFacts DEF LingerInv, Close, Closing, Cleanup, OpenReconciliation, CloseSlot, AtClose,
     CloseOwner, Ordinal
<1>2. pc' \in Closing \cup {"closed"}
  BY DEF Close, Closing, Cleanup, OpenReconciliation, CloseSlot, Goto, CloseOwner, Ordinal
<1>3. ASSUME NEW old, NEW new, Left(old), new.first15m = old.first15m, new.mirror = old.mirror,
             \A i \in Ordinal : new.slots[i] = old.slots[i] \/ new.slots[i] = "MANUAL_REVIEW"
      PROVE  Left(new)
  BY <1>3 DEF Left, Quiet, Activated
<1>4. \A d : Left(d) => (failed' = failed /\ cause' = cause => (Quiet(d) \/ (failed' /\ cause' = "COMPLETED" /\ Activated(d))))
  BY DEF Left
<1>5. Left(db') /\ Left(tx')
  <2>1. CASE Cleanup
    <3> DEFINE mid == [db EXCEPT !.jobs = CancelActive(@)]
               done == TerminalizeWork(mid, Running(db), "FAILED")
    <3>1. /\ db' = [done EXCEPT !.batch = IF @ = "DISCOVERING" THEN "TERMINAL_FAILED" ELSE @,
                                !.owner = "TERMINAL"]
          /\ tx' = db'
      BY <2>1 DEF Cleanup
    <3>2. db'.first15m = db.first15m /\ db'.mirror = db.mirror /\ db'.slots = db.slots
      BY <1>1, <3>1 DEF TerminalizeWork, FollowWork, Record
    <3> HIDE DEF done
    <3>3. tx' = db'
      BY <3>1
    <3>4. Left(db')
      BY <1>1, <1>3, <3>2
    <3> QED BY <3>3, <3>4
  <2>2. CASE OpenReconciliation
    <3>1. tx' = ReconcileWork(db) /\ db' = db
      BY <2>2 DEF OpenReconciliation
    <3>2. tx'.first15m = db.first15m /\ tx'.mirror = db.mirror /\ tx'.slots = db.slots
      BY <3>1, ReconcileFacts, TypeFacts DEF Alike
    <3> QED BY <1>1, <1>3, <3>1, <3>2
  <2>3. ASSUME NEW i \in Ordinal, CloseSlot(i) PROVE Left(db') /\ Left(tx')
    <3>1. /\ tx' = IF tx.slots[i] = "ABSENT" THEN tx
                   ELSE [tx EXCEPT !.queue[sel[i]] = UpdateLast(@, {"QUEUED"}, "SKIPPED", None, now),
                                   !.slots[i] = IF @ = "SELECTED" THEN "MANUAL_REVIEW" ELSE @]
          /\ db' \in {db, tx'}
      BY <2>3 DEF CloseSlot
    <3>2. CASE tx.slots[i] = "ABSENT"
      BY <1>1, <3>1, <3>2
    <3>3. CASE tx.slots[i] # "ABSENT"
      <4>1. /\ tx'.first15m = tx.first15m /\ tx'.mirror = tx.mirror
            /\ tx'.slots = [tx.slots EXCEPT ![i] = IF @ = "SELECTED" THEN "MANUAL_REVIEW" ELSE @]
        BY <1>1, <3>1, <3>3 DEF Record
      <4>2. \A j \in Ordinal : tx'.slots[j] = tx.slots[j] \/ tx'.slots[j] = "MANUAL_REVIEW"
        BY <1>1, <4>1 DEF Record
      <4>3. Left(tx')
        BY <1>1, <1>3, <4>1, <4>2
      <4>4. db' = db \/ db' = tx'
        BY <3>1
      <4> QED BY <1>1, <4>3, <4>4
    <3> QED BY <3>2, <3>3
  <2>4. CASE CloseOwner
    BY <1>1, <2>4 DEF CloseOwner
  <2> QED BY <2>1, <2>2, <2>3, <2>4 DEF Close
<1> QED BY <1>1, <1>2, <1>5 DEF LingerInv, Left, Closing, Quiet, Activated

(* Every step keeps it.                                                      *)
LEMMA LingerStep == HandInv /\ HandInv' /\ LingerInv /\ [Next]_vars => LingerInv'
<1> SUFFICES ASSUME HandInv, HandInv', LingerInv, [Next]_vars PROVE LingerInv'
  OBVIOUS
<1>1. CASE UNCHANGED vars
  BY <1>1 DEF vars, LingerInv, Left, Quiet, Activated
<1>2. CASE Tick
  BY <1>2 DEF Tick, LingerInv, Left, Quiet, Activated
<1>3. CASE Launch \/ Crash
  BY <1>3 DEF Launch, Crash, Goto, LingerInv, Closing
<1> QED BY <1>1, <1>2, <1>3, ExecuteLingers, DriveLingers, CloseLingers DEF Next

(* Whatever fails, is rolled back or dies, a closed campaign that is in the  *)
(* way of the next is one whose materialization raised, and its executor's   *)
(* two jobs are all that is in the way.                                      *)
THEOREM OnlyFirst15mEverLingers == Spec => []OnlyFirst15mLingers
<1>1. Init => LingerInv
  BY DEF Init, LingerInv, Closing
<1>2. HandInv /\ LingerInv => OnlyFirst15mLingers
  <2> SUFFICES ASSUME HandInv, LingerInv, pc = "closed", ~NothingActive(db)
               PROVE  /\ failed /\ cause = "COMPLETED" /\ ~db.mirror
                      /\ \A i \in Ordinal : db.first15m[i] = "PENDING"
                                            /\ db.slots[i] = "MANUAL_REVIEW"
                      /\ NothingActive([db EXCEPT !.first15m = CancelActive(@)])
    BY DEF OnlyFirst15mLingers
  <2>1. /\ \A w \in Work : db.jobs[w] # "PENDING" /\ db.work[w] # "RUNNING"
        /\ db.owner = "TERMINAL"
    BY ClosedRest
  <2>2. ~Quiet(db)
    BY <2>1 DEF NothingActive, Quiet
  <2>3. failed /\ cause = "COMPLETED" /\ Activated(db)
    BY <2>2 DEF LingerInv, Left
  <2>4. \A i \in Ordinal : db.slots[i] # "SELECTED"
    BY DEF HandInv, ClosingInv, Settled
  <2>5. NothingActive([db EXCEPT !.first15m = CancelActive(@)])
    <3> DEFINE new == [db EXCEPT !.first15m = CancelActive(@)]
    <3>1. db \in Record /\ db.first15m \in [Ordinal -> JobState]
      BY TypeFacts DEF Record
    <3>2. /\ new.jobs = db.jobs /\ new.work = db.work /\ new.owner = db.owner
          /\ new.first15m = CancelActive(db.first15m)
      BY <3>1 DEF Record
    <3> HIDE DEF new
    <3>3. NothingActive(new)
      BY <2>1, <3>1, <3>2, CancelFacts DEF NothingActive
    <3> QED BY <3>3 DEF new
  <2> QED BY <2>3, <2>4, <2>5 DEF Activated
<1> QED BY <1>1, <1>2, HandoffInvariant, LingerStep, PTL DEF Spec

-----------------------------------------------------------------------------
(* The queue implements the ownership of tokens *)

(* What a row of each kind stands for.                                       *)
LEMMA StandingFacts ==
  ASSUME NEW rows \in Seq(Row)
  PROVE  /\ Owned(rows) => Standing(rows) = Ownership!Owned
         /\ rows # << >> /\ Last(rows).status = "SKIPPED" => Standing(rows) = Ownership!Barred
         /\ \A a \in Nat : HandoffEligible(rows, a) =>
              \/ Standing(rows) = Ownership!Free
              \/ Standing(rows).is = "cooling" /\ Standing(rows).until <= a
<1>1. Owned(rows) => Standing(rows) = Ownership!Owned
  BY DEF Owned, Standing, LiveStatus, Ownership!Owned
<1>2. rows # << >> /\ Last(rows).status = "SKIPPED" => Standing(rows) = Ownership!Barred
  BY DEF Standing, LiveStatus, Ownership!Barred
<1>3. ASSUME NEW a \in Nat, HandoffEligible(rows, a)
      PROVE  \/ Standing(rows) = Ownership!Free
             \/ Standing(rows).is = "cooling" /\ Standing(rows).until <= a
  <2>1. CASE rows = << >>
    BY <2>1 DEF Standing, Ownership!Free
  <2>2. CASE rows # << >>
    <3>1. Last(rows) \in Row
      BY <2>2 DEF Last
    <3>2. /\ Last(rows).status \notin LiveStatus /\ Last(rows).status \notin TerminalStatus
          /\ EffectiveCooldownExpiry(Last(rows)) # None
          /\ a >= EffectiveCooldownExpiry(Last(rows))
      BY <1>3, <2>2 DEF HandoffEligible, HandoffAssessment
    <3>3. Last(rows).status = "COOLDOWN"
      BY <3>1, <3>2 DEF Row, QueueStatus, ActiveStatus
    <3>4. EffectiveCooldownExpiry(Last(rows)) \in Int
      BY <3>1, CooldownAssumption DEF Row, EffectiveCooldownExpiry, None
    <3> HIDE DEF EffectiveCooldownExpiry
    <3> QED BY <2>2, <3>2, <3>3, <3>4 DEF Standing
  <2> QED BY <2>1, <2>2
<1> QED BY <1>1, <1>2, <1>3

(* A database before its first campaign is one of free, cooling and barred   *)
(* tokens.                                                                   *)
LEMMA OwnershipInit == Init => Ownership!Init
<1> SUFFICES ASSUME Init PROVE Ownership!Init
  OBVIOUS
<1>1. PICK queue \in [Token -> History] :
        db = [NewCampaign([queue |-> queue]) EXCEPT !.owner = "TERMINAL"]
  BY DEF Init
<1>2. db.queue = queue
  BY <1>1 DEF NewCampaign
<1>3. \A rows \in History :
        Standing(rows) \in {Ownership!Free, Ownership!Barred}
                             \cup {Ownership!Cooling(end) : end \in 0 .. Cooldown}
  <2> SUFFICES ASSUME NEW rows \in History
               PROVE  \/ Standing(rows) \in {Ownership!Free, Ownership!Barred}
                      \/ Standing(rows) = Ownership!Cooling(Cooldown)
    BY CooldownAssumption
  <2>1. CASE rows = << >>
    BY <2>1 DEF Standing, Ownership!Free
  <2>2. CASE rows \in {<<QueueRow("COOLDOWN", Cooldown, 0)>>, <<QueueRow("COOLDOWN", 0, 0)>>}
    <3> DEFINE row == Last(rows)
    <3>1. rows # << >> /\ row.status = "COOLDOWN"
      <4>1. CASE rows = <<QueueRow("COOLDOWN", Cooldown, 0)>>
        BY <4>1 DEF Last, QueueRow
      <4>2. CASE rows = <<QueueRow("COOLDOWN", 0, 0)>>
        BY <4>2 DEF Last, QueueRow
      <4> QED BY <2>2, <4>1, <4>2
    <3>2. row.last_checked_at = 0 /\ row.next_check_at \in {0, Cooldown}
      <4>1. CASE rows = <<QueueRow("COOLDOWN", Cooldown, 0)>>
        BY <4>1 DEF Last, QueueRow
      <4>2. CASE rows = <<QueueRow("COOLDOWN", 0, 0)>>
        BY <4>2 DEF Last, QueueRow
      <4> QED BY <2>2, <4>1, <4>2
    <3> HIDE DEF row
    <3>3. row.last_checked_at # None /\ Cooldown # None
      BY <3>2, CooldownAssumption DEF None
    <3>4. row.next_check_at = Cooldown => EffectiveCooldownExpiry(row) = Cooldown
      BY <3>2, <3>3, CooldownAssumption DEF EffectiveCooldownExpiry
    <3>5. row.next_check_at = 0 => EffectiveCooldownExpiry(row) = Cooldown
      BY <3>2, <3>3, CooldownAssumption DEF EffectiveCooldownExpiry
    <3>6. EffectiveCooldownExpiry(row) = Cooldown
      BY <3>2, <3>4, <3>5
    <3>7. Standing(rows) = Ownership!Cooling(Cooldown)
      BY <3>1, <3>3, <3>6 DEF row, Standing, LiveStatus, Ownership!Cooling
    <3> QED BY <3>7
  <2>3. CASE rows = <<QueueRow("COOLDOWN", 0, None)>>
    <3>1. rows # << >> /\ Last(rows).status = "COOLDOWN" /\ Last(rows).last_checked_at = None
      BY <2>3 DEF Last, QueueRow
    <3> QED BY <3>1 DEF Standing, LiveStatus, EffectiveCooldownExpiry, Ownership!Barred
  <2>4. CASE rows = <<QueueRow("SKIPPED", 0, 0)>>
    <3>1. rows # << >> /\ Last(rows).status = "SKIPPED"
      BY <2>4 DEF Last, QueueRow
    <3> QED BY <3>1 DEF Standing, LiveStatus, Ownership!Barred
  <2> QED BY <2>1, <2>2, <2>3, <2>4 DEF History
<1> QED BY <1>2, <1>3 DEF Init, Ownership!Init

(* Rows that are let go settle their tokens, and the others stay.            *)
LEMMA LetGo ==
  ASSUME HandInv, HandInv', now' = now,
         \A t \in Token :
           \/ db'.queue[t] = db.queue[t]
           \/ Owned(db.queue[t]) /\ Standing(db'.queue[t]) \in
                {Ownership!Barred, Ownership!Cooling(now + Cooldown)}
  PROVE  [Ownership!Next]_(Ownership!ownershipVars)
<1> DEFINE S == {t \in Token : db'.queue[t] # db.queue[t]}
           end == [t \in S |-> Standing(db'.queue[t])]
<1>1. CASE S = {}
  <2>1. \A t \in Token : db'.queue[t] = db.queue[t]
    BY <1>1
  <2> QED BY <2>1 DEF Ownership!ownershipVars
<1>2. CASE S # {}
  <2>1. \A t \in S : Standing(db.queue[t]) = Ownership!Owned
    BY TypeFacts, StandingFacts
  <2>2. end \in [S -> {Ownership!Barred, Ownership!Cooling(now + Cooldown)}]
    OBVIOUS
  <2>3. [t \in Token |-> Standing(db'.queue[t])]
          = [t \in Token |-> IF t \in S THEN end[t]
                             ELSE [u \in Token |-> Standing(db.queue[u])][t]]
    OBVIOUS
  <2>4. S \in SUBSET Token
    OBVIOUS
  <2> HIDE DEF S, end
  <2>5. Ownership!Settle(S)
    <3>1. \A t \in S : [u \in Token |-> Standing(db.queue[u])][t] = Ownership!Owned
      BY <2>1, <2>4
    <3> QED BY <1>2, <2>2, <2>3, <3>1 DEF Ownership!Settle
  <2> QED BY <2>4, <2>5 DEF Ownership!Next
<1> QED BY <1>1, <1>2

(* The commit of a cycle takes its two tokens or none.                       *)
LEMMA CommitTakes ==
  ASSUME HandInv, CommitCycle PROVE [Ownership!Next]_(Ownership!ownershipVars)
<1>1. /\ db' = tx /\ now' = now /\ at \in Nat /\ at <= now /\ now \in Nat
      /\ \/ tx.queue = db.queue
         \/ /\ Handed(tx, sel) /\ Eligible(db.queue, sel, at)
            /\ Claimed(db.queue, tx.queue, sel, at)
      /\ \A t \in Token : db.queue[t] \in Seq(Row)
  BY TypeFacts DEF CommitCycle, HandInv, HandoffInv
<1>2. CASE tx.queue = db.queue
  BY <1>1, <1>2 DEF Ownership!ownershipVars
<1>3. CASE Handed(tx, sel) /\ Eligible(db.queue, sel, at) /\ Claimed(db.queue, tx.queue, sel, at)
  <2> DEFINE own == [t \in Token |-> Standing(db.queue[t])]
             new == [t \in Token |-> Standing(db'.queue[t])]
  <2>1. /\ sel[1] \in Token /\ sel[2] \in Token /\ sel[1] # sel[2]
        /\ HandoffEligible(db.queue[sel[1]], at) /\ HandoffEligible(db.queue[sel[2]], at)
    BY <1>3 DEF Handed, TwoTokens, Eligible, Ordinal
  <2>2. \A t \in {sel[1], sel[2]} :
          \/ own[t] = Ownership!Free
          \/ own[t].is = "cooling" /\ own[t].until <= now
    <3> SUFFICES ASSUME NEW t \in {sel[1], sel[2]}
                 PROVE  \/ own[t] = Ownership!Free
                        \/ own[t].is = "cooling" /\ own[t].until <= now
      OBVIOUS
    <3>1. t \in Token /\ HandoffEligible(db.queue[t], at) /\ own[t] = Standing(db.queue[t])
      BY <2>1
    <3>2. \/ Standing(db.queue[t]) = Ownership!Free
          \/ Standing(db.queue[t]).is = "cooling" /\ Standing(db.queue[t]).until <= at
      BY <1>1, <3>1, StandingFacts
    <3>3. Standing(db.queue[t]).is = "cooling" => Standing(db.queue[t]).until \in Int
      <4>1. db.queue[t] \in Seq(Row)
        BY <1>1, <3>1
      <4>2. db.queue[t] # << >> => Last(db.queue[t]) \in Row
        BY <4>1 DEF Last
      <4> QED BY <4>2, CooldownAssumption DEF Standing, EffectiveCooldownExpiry, Row, None
    <3> HIDE DEF own
    <3> QED BY <1>1, <3>1, <3>2, <3>3
  <2>3. \A t \in Token : new[t] = IF t = sel[1] \/ t = sel[2] THEN Ownership!Owned ELSE own[t]
    <3> SUFFICES ASSUME NEW t \in Token
                 PROVE  Standing(db'.queue[t]) = IF t = sel[1] \/ t = sel[2] THEN Ownership!Owned
                                                 ELSE Standing(db.queue[t])
      OBVIOUS
    <3>1. /\ ClaimTrackingItem(db.queue[t], at) \in Seq(Row)
          /\ Owned(ClaimTrackingItem(db.queue[t], at))
      BY <1>1, ClaimFacts
    <3>2. Standing(ClaimTrackingItem(db.queue[t], at)) = Ownership!Owned
      BY <3>1, StandingFacts
    <3> QED BY <1>1, <1>3, <3>2 DEF Claimed
  <2>4. new = [own EXCEPT ![sel[1]] = Ownership!Owned, ![sel[2]] = Ownership!Owned]
    BY <2>1, <2>3
  <2>5. Ownership!Take(sel[1], sel[2])
    BY <1>1, <2>1, <2>2, <2>4 DEF Ownership!Take, Ownership!Available
  <2> QED BY <2>1, <2>5 DEF Ownership!Next
<1> QED BY <1>1, <1>2, <1>3

(* Every step is a step of the ownership or leaves it alone.                 *)
LEMMA OwnershipStep ==
  ASSUME HandInv, HandInv', [Next]_vars
  PROVE  [Ownership!Next]_(Ownership!ownershipVars)
<1>1. CASE now' = now /\ db'.queue = db.queue
  BY <1>1 DEF Ownership!ownershipVars
<1>2. CASE Tick
  BY <1>2 DEF Tick, Ownership!Tick, Ownership!Next
<1>3. CASE Launch
  BY <1>1, <1>3, LaunchKeeps DEF Launch
<1>4. CASE Execute
  <2>1. CASE CommitCycle
    BY <2>1, CommitTakes
  <2>2. CASE ~CommitCycle
    BY <1>1, <1>4, <2>2 DEF Execute, RunIntake, SelectTwo, Shortfall, SharedFault, PrepareHandoff,
       CycleRaises, HandoffOneSlot, HandoffRefused, HandoffFault, ActivationFails
  <2> QED BY <2>1, <2>2
<1>5. CASE Drive
  <2>1. CASE PostCycle
    <3>1. /\ now' = now /\ now \in Nat
          /\ db'.queue = db.queue \/ (Handed(db, sel) /\ Disposed(db.queue, db'.queue, sel)
                                      /\ \A i \in Ordinal : Owned(db.queue[sel[i]]))
      BY <2>1, PostCycleKeeps, TypeFacts DEF PostCycle
    <3>2. ASSUME NEW t \in Token, Handed(db, sel), Disposed(db.queue, db'.queue, sel),
                 \A i \in Ordinal : Owned(db.queue[sel[i]])
          PROVE  \/ db'.queue[t] = db.queue[t]
                 \/ Owned(db.queue[t]) /\ Standing(db'.queue[t]) \in
                      {Ownership!Barred, Ownership!Cooling(now + Cooldown)}
      <4>1. CASE ~(t = sel[1] \/ t = sel[2])
        BY <3>2, <4>1 DEF Disposed
      <4>2. CASE t = sel[1] \/ t = sel[2]
        <5>1. PICK main \in BOOLEAN : db'.queue[t] = Disposition(db.queue[t], main)
          BY <3>2, <4>2 DEF Disposed
        <5>2. Owned(db.queue[t]) /\ db.queue[t] \in Seq(Row) /\ RowsOK(db.queue[t])
          BY <3>2, <4>2, TypeFacts DEF Ordinal
        <5>3. /\ db'.queue[t] # << >> /\ db'.queue[t] \in Seq(Row)
              /\ Last(db'.queue[t]) =
                   IF main THEN QueueRow("COOLDOWN", now + Cooldown, now)
                           ELSE QueueRow("SKIPPED", Last(db.queue[t]).next_check_at, now)
          <6>1. /\ db'.queue[t] \in Seq(Row) /\ Len(db'.queue[t]) = Len(db.queue[t])
                /\ Last(db'.queue[t]) =
                     IF main THEN QueueRow("COOLDOWN", now + Cooldown, now)
                             ELSE QueueRow("SKIPPED", Last(db.queue[t]).next_check_at, now)
            BY <3>1, <5>1, <5>2, DispositionFacts
          <6>2. Len(db.queue[t]) # 0
            BY <5>2 DEF Owned
          <6> QED BY <6>1, <6>2
        <5>4. CASE ~main
          <6>1. Last(db'.queue[t]).status = "SKIPPED"
            BY <5>3, <5>4 DEF QueueRow
          <6> QED BY <5>2, <5>3, <6>1, StandingFacts
        <5>5. CASE main
          <6>1. /\ Last(db'.queue[t]).status = "COOLDOWN"
                /\ Last(db'.queue[t]).next_check_at = now + Cooldown
                /\ Last(db'.queue[t]).last_checked_at = now
            BY <5>3, <5>5 DEF QueueRow
          <6>2. EffectiveCooldownExpiry(Last(db'.queue[t])) = now + Cooldown
                /\ now + Cooldown # None
            BY <3>1, <6>1, CooldownAssumption DEF EffectiveCooldownExpiry, None
          <6>3. Standing(db'.queue[t]) = Ownership!Cooling(now + Cooldown)
            BY <5>3, <6>1, <6>2 DEF Standing, LiveStatus, Ownership!Cooling
          <6> QED BY <5>2, <6>3
        <5> QED BY <5>4, <5>5
      <4> QED BY <4>1, <4>2
    <3> QED BY <1>1, <3>1, <3>2, LetGo
  <2>2. CASE ~PostCycle
    BY <1>1, <1>5, <2>2, MaterializeKeeps, ContinueSlotKeeps
    DEF Drive, Materialize, MaterializeRaises, NoActivation, ContinueSlot, FactoryRaises
  <2> QED BY <2>1, <2>2
<1>6. CASE Close
  <2>1. CASE Cleanup \/ OpenReconciliation
    BY <1>1, <2>1, CleanupKeeps DEF Cleanup, OpenReconciliation
  <2>2. CASE (\E i \in Ordinal : CloseSlot(i)) \/ CloseOwner
    <3>1. now' = now /\ Skips(db.queue, db'.queue)
      BY <2>2, CloseFirstKeeps, CloseSecondKeeps, CloseOwnerKeeps
      DEF Ordinal, CloseSlot, CloseOwner
    <3>2. \A t \in Token :
            \/ db'.queue[t] = db.queue[t]
            \/ Owned(db.queue[t]) /\ Standing(db'.queue[t]) = Ownership!Barred
      <4>1. \A t \in Token : db'.queue[t] \in Seq(Row)
        <5>1. db' \in Record
          BY DEF HandInv, TypeOK
        <5> QED BY <5>1 DEF Record, Row
      <4> QED BY <3>1, <4>1, StandingFacts DEF Skips
    <3> QED BY <3>1, <3>2, LetGo
  <2> QED BY <1>6, <2>1, <2>2 DEF Close
<1>7. CASE Crash \/ UNCHANGED vars
  BY <1>1, <1>7 DEF Crash, vars
<1> QED BY <1>2, <1>3, <1>4, <1>5, <1>6, <1>7 DEF Next

(* The rows of the tracking queue, with their savepoint, commits and         *)
(* rollbacks, implement the ownership of tokens.                             *)
THEOREM QueueImplementsOwnership == Spec => ImplementsOwnership
<1>1. HandInv /\ HandInv' /\ [Next]_vars => [Ownership!Next]_(Ownership!ownershipVars)
  BY OwnershipStep
<1> QED BY <1>1, OwnershipInit, HandoffInvariant, PTL DEF Spec, ImplementsOwnership, Ownership!Spec
=============================================================================
