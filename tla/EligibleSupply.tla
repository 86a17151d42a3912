--------------------------- MODULE EligibleSupply ---------------------------
(***************************************************************************)
(* The candidate supply of the operational campaign: one locator request,  *)
(* one migration discovery, then bounded rounds of exact-pool market       *)
(* checks until two tokens are freshly eligible or a stop reason is        *)
(* certified (discovery/eligible_token_supply.py, graduated_liquidity_     *)
(* front_door.py, direct_migration_discovery.py), with the six-unit        *)
(* accounting its stages report to and the terminal report that depends on *)
(* it (operational_memory_factory_command.py).                             *)
(*                                                                         *)
(* A campaign reads the clock once, so a market cooldown only runs out     *)
(* between campaigns.  Seeded shuffles are nondeterministic choices.       *)
(***************************************************************************)
EXTENDS Integers, SixUnitAccounting

CONSTANTS Mint,          \* tokens that graduate
          Required,      \* REQUIRED_TOKEN_CAPACITY
          BatchSize,     \* EVALUATION_BATCH_SIZE
          Budget,        \* DEFAULT_DISCOVERY_OPERATION_BUDGET
          SourceFailure, \* the kinds of source failure that occur
          MaxDirect,     \* bound: requests of one migration discovery
          MaxCampaigns   \* bound: launches

ASSUME SupplyAssumption ==
  /\ IsFiniteSet(Mint) /\ Mint \cap {"profiles", "pairs"} = {}
  /\ Required \in Nat \ {0} /\ BatchSize \in Nat \ {0}
  /\ SourceFailure \subseteq {"SOURCE_UNAVAILABLE", "RATE_LIMITED_OR_STALE", "MALFORMED_OR_PARTIAL"}
  /\ Budget \in Nat /\ MaxDirect \in Nat \ {0} /\ MaxCampaigns \in Nat

ASSUME LedgerAssumption == 2 <= Ceiling /\ Budget <= Ceiling  \* 30 and 30

VARIABLES
  pc,          \* where the campaign is
  campaigns,   \* launches so far
  registry,    \* graduated candidates, kept for ever
  reserve,     \* printer_eligible_token_reserve, by mint
  cooling,     \* mints in their below-floor market cooldown
  certificate, \* shortage_classification this campaign has certified
  report,      \* the terminal report of this campaign
  latest,      \* confirmed_this_cycle
  withheld,    \* discovery is ACCOUNTING_BLOCKED
  barred,      \* known mints the tracking queue would not hand off
  prior,       \* the reserve as it was loaded
  evaluated, eligible,
  ops,         \* source operations used
  rounds,
  failing,     \* kinds of source failure seen
  stop,        \* last_stop_reason
  observed,    \* transports the observer was told of when they were measured
  owner,       \* the six-unit owner
  unanswered   \* history: mints a source did not answer for

durable == <<registry, reserve, cooling, certificate>>
walk    == <<latest, withheld, barred, prior, evaluated, eligible, ops, rounds, failing, stop>>
vars    == <<pc, campaigns, durable, report, walk, observed, owner, unanswered>>

Place == {"idle", "locate", "discover", "begin", "walk", "supplied", "raised", "done", "dead"}
\* OUT: no row, or one that is removed, excluded or rejected.
ReserveStatus == {"OUT", "ELIGIBLE_FRESH", "ELIGIBLE_STALE"}
\* REJECTED: the exact pair is not the one asked for, or it rotates too soon.
Outcome == {"PROVEN", "BELOW_FLOOR", "REJECTED", "COOLDOWN_SKIP"} \cup SourceFailure
StopReason ==
  {"NOT_STARTED", "ELIGIBLE_CAPACITY_MET", "ALL_REACHABLE_CANDIDATES_EVALUATED",
   "DISCOVERY_OPERATION_BUDGET_EXHAUSTED", "CAMPAIGN_DURATION_EXHAUSTED",
   "NO_ADDITIONAL_UNIQUE_CANDIDATES_REACHABLE"}
Shortage ==
  {"NONE", "SOURCE_AVAILABILITY_FAILURE", "STALE_EVIDENCE_SHORTAGE", "SOURCE_VISIBILITY_SHORTAGE",
   "BUDGET_EXHAUSTION", "DURATION_EXHAUSTION", "TRACKING_STATE_CAPACITY_BLOCKED",
   "TRUE_MARKET_SUPPLY_SHORTAGE",
   "DISCOVERY_ARCHITECTURE_FALSE_SHORTAGE"}
Transport == {Dex("profiles"), Dex("pairs"), Direct("migration")} \cup {Dex(m) : m \in Mint}
StageId == {<<"LOCATOR", 1>>, <<"DIRECT_MIGRATION", 1>>} \cup ({"EXACT_LIQUIDITY"} \X (Nat \ {0}))

TypeOK ==
  /\ pc \in Place
  /\ campaigns \in 0 .. MaxCampaigns
  /\ registry \subseteq Mint /\ cooling \subseteq Mint
  /\ reserve \in [Mint -> ReserveStatus]
  /\ certificate \in Shortage
  /\ report \in {"NONE", "WRITTEN", "WITHHELD"}
  /\ latest \subseteq registry /\ barred \subseteq registry
  /\ withheld \in BOOLEAN
  /\ prior \subseteq Mint
  /\ evaluated \subseteq registry /\ eligible \subseteq evaluated
  /\ ops \in Nat /\ rounds \in Nat
  /\ failing \subseteq SourceFailure \cup {"DISCOVERY"}
  /\ stop \in StopReason
  /\ observed \subseteq Transport
  /\ owner \in [ledger : SUBSET Transport, stages : SUBSET StageId, blocked : BlockReason]
  /\ unanswered \subseteq registry

-----------------------------------------------------------------------------
LesserOf(a, b)  == IF a < b THEN a ELSE b
GreaterOf(a, b) == IF a > b THEN a ELSE b

Remaining  == GreaterOf(0, Budget - ops)
Unexplored == registry \ evaluated

\* mutant: without the rounds a focus on the reserve and a rest may take
MaxRounds_NoSlack_Bug == GreaterOf(1, Cardinality(registry) \div BatchSize)
MaxRounds == GreaterOf(1, Cardinality(registry) \div BatchSize + 3)

Goto(place) == pc' = place

\* A database with a history: what earlier campaigns found, and what came of it.
Init ==
  /\ pc = "idle" /\ campaigns = 0
  /\ registry \in SUBSET Mint
  /\ reserve \in [Mint -> ReserveStatus]
  /\ \A m \in Mint \ registry : reserve[m] = "OUT"
  /\ cooling \in SUBSET {m \in registry : reserve[m] # "ELIGIBLE_FRESH"}
  /\ certificate = "NONE" /\ report = "NONE"
  /\ latest = {} /\ withheld = FALSE /\ barred = {} /\ prior = {}
  /\ evaluated = {} /\ eligible = {}
  /\ ops = 0 /\ rounds = 0 /\ failing = {} /\ stop = "NOT_STARTED"
  /\ observed = {} /\ owner = EmptyOwner /\ unanswered = {}

\* A new campaign has a ledger, an owner and a certificate of its own.
Launch ==
  /\ pc \in {"idle", "done", "dead"} /\ campaigns < MaxCampaigns
  /\ campaigns' = campaigns + 1
  /\ cooling' \in SUBSET cooling
  /\ certificate' = "NONE" /\ report' = "NONE"
  /\ latest' = {} /\ withheld' = FALSE /\ barred' = {} /\ prior' = {}
  /\ evaluated' = {} /\ eligible' = {}
  /\ ops' = 0 /\ rounds' = 0 /\ failing' = {} /\ stop' = "NOT_STARTED"
  /\ observed' = {} /\ owner' = EmptyOwner /\ unanswered' = {}
  /\ Goto("locate")
  /\ UNCHANGED <<registry, reserve>>

(***************************************************************************)
(* The end of a stage that was started and measured T: it is sealed and    *)
(* ingested before it returns; what the seal or the owner has against it   *)
(* is raised.                                                              *)
(***************************************************************************)
Taken(id, T) == Sealable(T) /\ IngestFault(owner, id, T) = "NONE"

SealStage(id, T, next) ==
  /\ observed' = observed \cup T
  /\ owner' = IF Sealable(T) THEN Ingest(owner, id, T) ELSE owner
  /\ Goto(IF Taken(id, T) THEN next ELSE "raised")

\* run_fresh_profile_locator: two requests at most, the second after the first.
Locate ==
  /\ pc = "locate"
  /\ \E T \in {{}, {Dex("profiles")}, {Dex("profiles"), Dex("pairs")}}, failed \in BOOLEAN :
       /\ SealStage(<<"LOCATOR", 1>>, T, "discover")
       /\ failing' = IF failed THEN {"DISCOVERY"} ELSE {}
  /\ ops' = 1
  /\ UNCHANGED <<campaigns, durable, report, latest, withheld, barred, prior,
                 evaluated, eligible, rounds, stop, unanswered>>

(***************************************************************************)
(* run_direct_migration_discovery: a page of signatures, a transaction and *)
(* a verification for each candidate.  When the measured transports do not *)
(* add up, nothing is persisted and the discovery is ACCOUNTING_BLOCKED.   *)
(* An answer, a failure included, names its transport: T is empty when the *)
(* page was refused before it was asked for, and no candidate is verified. *)
(***************************************************************************)
DiscoverMigration ==
  /\ pc = "discover"
  /\ \E confirmed \in SUBSET Mint, requests \in 1 .. MaxDirect,
        T \in {{}, {Direct("migration")}}, failed, reconciled \in BOOLEAN :
       /\ requests >= 1 + 2 * Cardinality(confirmed)
       /\ ~reconciled => confirmed = {}
       /\ T = {} => ~reconciled /\ requests = 1
       /\ SealStage(<<"DIRECT_MIGRATION", 1>>, T, "begin")
       /\ registry' = registry \cup confirmed
       /\ latest' = confirmed
       /\ withheld' = ~reconciled
       /\ ops' = ops + requests
       /\ failing' = IF failed THEN failing \cup {"DISCOVERY"} ELSE failing
  /\ UNCHANGED <<campaigns, reserve, cooling, certificate, report, barred, prior,
                 evaluated, eligible, rounds, stop, unanswered>>

\* mutant: only the rows that are stale already are loaded
LoadReserve_StaleOnly_Bug == {m \in registry : reserve[m] = "ELIGIBLE_STALE"}
LoadReserve == {m \in registry : reserve[m] \in {"ELIGIBLE_FRESH", "ELIGIBLE_STALE"}}

\* The precheck goes through every known mint, not the reserve alone.
Prechecked == registry

(***************************************************************************)
(* The reserve is loaded and becomes stale, and a mint the tracking queue  *)
(* (DiscoveryHandoff) would refuse is excluded without a market check.     *)
(***************************************************************************)
Begin ==
  /\ pc = "begin"
  /\ prior' = LoadReserve
  /\ \E refused \in SUBSET registry :
       LET out == refused \cap Prechecked
       IN /\ barred' = refused
          /\ evaluated' = out
          /\ reserve' = [m \in Mint |-> IF m \notin prior' THEN reserve[m]
                                        ELSE IF m \in out THEN "OUT" ELSE "ELIGIBLE_STALE"]
  /\ Goto("walk")
  /\ UNCHANGED <<campaigns, registry, cooling, certificate, report, latest, withheld,
                 eligible, ops, rounds, failing, stop, observed, owner, unanswered>>

-----------------------------------------------------------------------------
\* mutant: nothing but capacity and budget
NextStop_BudgetOnly_Bug ==
  IF Cardinality(eligible) >= Required THEN "ELIGIBLE_CAPACITY_MET"
  ELSE IF Remaining = 0 THEN "DISCOVERY_OPERATION_BUDGET_EXHAUSTED"
  ELSE "NOT_STARTED"

\* Why the loop does not go on before the deadline, in the order it asks;
\* NOT_STARTED when it does.
NextStop ==
  IF Cardinality(eligible) >= Required THEN "ELIGIBLE_CAPACITY_MET"
  ELSE IF (rounds > 0 /\ Unexplored = {}) \/ rounds >= MaxRounds
       THEN "ALL_REACHABLE_CANDIDATES_EVALUATED"
  ELSE IF Remaining = 0 THEN "DISCOVERY_OPERATION_BUDGET_EXHAUSTED"
  ELSE IF Unexplored = {} THEN "NO_ADDITIONAL_UNIQUE_CANDIDATES_REACHABLE"
  ELSE "NOT_STARTED"

\* mutant: what is excluded is what this round focuses away, not what was evaluated
RoundPool_KeepsEvaluated_Bug ==
  LET focus == prior \cap Unexplored
  IN IF rounds = 0 /\ focus # {} THEN focus ELSE registry

\* The first round is for the reserve, if there is any.
RoundPool ==
  LET focus == prior \cap Unexplored
  IN IF rounds = 0 /\ focus # {} THEN focus ELSE Unexplored

\* mutant: a full batch to the end
RoundSize_Uncapped_Bug == BatchSize
RoundSize == LesserOf(BatchSize, Remaining)

(***************************************************************************)
(* _bounded_refresh_rows: as many of the latest and of the persisted mints *)
(* as a round of size n takes; one of each at least where there are both.  *)
(***************************************************************************)
BoundedRefreshRows(n) ==
  LET fresh == RoundPool \cap latest
      old   == RoundPool \ latest
      ofFresh == GreaterOf(1, n \div 2)
      ofOld   == GreaterOf(1, n - ofFresh)
      first == LesserOf(ofFresh, Cardinality(fresh)) + LesserOf(ofOld, Cardinality(old))
      total == IF fresh = {} \/ old = {} THEN LesserOf(n, Cardinality(RoundPool))
               ELSE GreaterOf(first, LesserOf(n, Cardinality(RoundPool)))
  IN {S \in SUBSET RoundPool :
        /\ Cardinality(S) = total
        /\ fresh # {} /\ old # {} =>
             /\ Cardinality(S \cap fresh) >= LesserOf(ofFresh, Cardinality(fresh))
             /\ Cardinality(S \ fresh) >= LesserOf(ofOld, Cardinality(old))}

(***************************************************************************)
(* What the front door may find out about the rows S.  A mint in cooldown  *)
(* is skipped; an answer is always measured when it has the exact pair,    *)
(* and a failure may not be (no pairs, malformed pairs, a refusal of the   *)
(* Source Governor).                                                       *)
(***************************************************************************)
Findings(S) ==
  {f \in [S -> Outcome] : \A m \in S : f[m] = "COOLDOWN_SKIP" <=> m \in cooling}
Called(S)     == S \ cooling
Found(f, out) == {m \in DOMAIN f : f[m] = out}
Failed(f)     == {m \in DOMAIN f : f[m] \in SourceFailure}
Measured(f)   == {Called(DOMAIN f) \ U : U \in SUBSET Failed(f)}

\* mutant: a stage that is BLOCKED is not handed to the sink
SealRound_SkipsBlocked_Bug(f, M) ==
  IF Called(DOMAIN f) = {} \/ Failed(f) # {}
  THEN observed' = observed \cup {Dex(m) : m \in M} /\ Goto("walk") /\ UNCHANGED owner
  ELSE SealStage(<<"EXACT_LIQUIDITY", rounds + 1>>, {Dex(m) : m \in M}, "walk")

\* A round without a market check is no stage.
SealRound(f, M) ==
  IF Called(DOMAIN f) = {} THEN Goto("walk") /\ UNCHANGED <<observed, owner>>
  ELSE SealStage(<<"EXACT_LIQUIDITY", rounds + 1>>, {Dex(m) : m \in M}, "walk")

\* mutant: the counts of the last round
FailureKinds_ThisRound_Bug(f) == {f[m] : m \in Failed(f)}
FailureKinds(f) == failing \cup {f[m] : m \in Failed(f)}

\* A proven mint counts; one of the reserve that is not proven again leaves it.
Settle(S, f) ==
  /\ evaluated' = evaluated \cup S
  /\ eligible' = eligible \cup Found(f, "PROVEN")
  /\ reserve' = [m \in Mint |-> IF m \in Found(f, "PROVEN") THEN "ELIGIBLE_FRESH"
                               ELSE IF m \in S \cap prior THEN "OUT" ELSE reserve[m]]
  /\ ops' = ops + Cardinality(Called(S))
  /\ rounds' = rounds + 1
  /\ failing' = FailureKinds(f)

(***************************************************************************)
(* One round.  The front door commits the cooldowns on its own connection  *)
(* before its stage is sealed; the supply commits the rest after it.       *)
(***************************************************************************)
Round ==
  /\ pc = "walk" /\ NextStop = "NOT_STARTED"
  /\ \E S \in BoundedRefreshRows(RoundSize) : \E f \in Findings(S) : \E M \in Measured(f) :
       /\ SealRound(f, M)
       /\ cooling' = cooling \cup Found(f, "BELOW_FLOOR")
       /\ IF pc' = "raised" THEN UNCHANGED <<reserve, evaluated, eligible, ops, rounds, failing>>
          ELSE Settle(S, f)
       /\ unanswered' = unanswered \cup Failed(f)
  /\ UNCHANGED <<campaigns, registry, certificate, report, latest, withheld, barred, prior, stop>>

(***************************************************************************)
(* The loop is left and, below capacity, a certificate is persisted.       *)
(* late: deadline_at has passed, which the loop asks after the rounds and  *)
(* the budget and before the candidates.                                   *)
(***************************************************************************)
LoopStop(late) ==
  IF late /\ NextStop \in {"NOT_STARTED", "NO_ADDITIONAL_UNIQUE_CANDIDATES_REACHABLE"}
  THEN "CAMPAIGN_DURATION_EXHAUSTED" ELSE NextStop

AllChannelsExhausted(reason) ==
  /\ Unexplored = {}
  /\ reason \in {"ALL_REACHABLE_CANDIDATES_EVALUATED", "NO_ADDITIONAL_UNIQUE_CANDIDATES_REACHABLE"}

Classify(reason, late) ==
  IF "SOURCE_UNAVAILABLE" \in failing THEN "SOURCE_AVAILABILITY_FAILURE"
  ELSE IF "RATE_LIMITED_OR_STALE" \in failing THEN "STALE_EVIDENCE_SHORTAGE"
  ELSE IF "MALFORMED_OR_PARTIAL" \in failing THEN "SOURCE_VISIBILITY_SHORTAGE"
  ELSE IF "DISCOVERY" \in failing THEN "SOURCE_AVAILABILITY_FAILURE"
  ELSE IF reason = "DISCOVERY_OPERATION_BUDGET_EXHAUSTED" THEN "BUDGET_EXHAUSTION"
  ELSE IF reason = "CAMPAIGN_DURATION_EXHAUSTED" THEN "DURATION_EXHAUSTION"
  ELSE IF barred # {} THEN "TRACKING_STATE_CAPACITY_BLOCKED"
  ELSE IF AllChannelsExhausted(reason)
       THEN IF evaluated = {} THEN "SOURCE_VISIBILITY_SHORTAGE" ELSE "TRUE_MARKET_SUPPLY_SHORTAGE"
  ELSE IF late THEN "DURATION_EXHAUSTION"
  ELSE IF Remaining = 0 THEN "BUDGET_EXHAUSTION"
  ELSE "DISCOVERY_ARCHITECTURE_FALSE_SHORTAGE"

LeaveLoop ==
  /\ pc = "walk"
  /\ \E late \in BOOLEAN :
       /\ LoopStop(late) # "NOT_STARTED"
       /\ stop' = LoopStop(late)
       /\ certificate' = IF Cardinality(eligible) >= Required THEN "NONE"
                         ELSE Classify(LoopStop(late), late)
  /\ Goto("supplied")
  /\ UNCHANGED <<campaigns, registry, reserve, cooling, report, latest, withheld, barred, prior,
                 evaluated, eligible, ops, rounds, failing, observed, owner, unanswered>>

-----------------------------------------------------------------------------
(***************************************************************************)
(* The coordinator.  Any exception on the way blocks the accounting, and a *)
(* blocked accounting withholds the report; the identities are compared    *)
(* only when no lifecycle was started.                                     *)
(***************************************************************************)

\* A stage that raises in the middle seals what it measured so far.
StageRaises ==
  /\ \/ /\ pc \in {"locate", "discover", "begin", "walk", "supplied"}
        /\ Goto("raised") /\ UNCHANGED <<cooling, observed, owner>>
     \/ /\ pc = "discover" /\ UNCHANGED cooling
        /\ SealStage(<<"DIRECT_MIGRATION", 1>>, {Direct("migration")}, "raised")
     \/ /\ pc = "walk" /\ NextStop = "NOT_STARTED"
        /\ \E S \in BoundedRefreshRows(RoundSize) : \E M \in SUBSET Called(S) :
             /\ SealStage(<<"EXACT_LIQUIDITY", rounds + 1>>, {Dex(m) : m \in M}, "raised")
             /\ \E below \in SUBSET M : cooling' = cooling \cup below
  /\ UNCHANGED <<campaigns, registry, reserve, certificate, report, walk, unanswered>>

Withhold ==
  /\ pc = "raised"
  /\ owner' = Block(owner, "STAGE_FAILED")
  /\ report' = "WITHHELD"
  /\ Goto("done")
  /\ UNCHANGED <<campaigns, durable, walk, observed, unanswered>>

\* External: with capacity met the handoff and the lifecycle follow, or do not.
Finalize ==
  /\ pc = "supplied"
  /\ \E started \in BOOLEAN :
       /\ started => stop = "ELIGIBLE_CAPACITY_MET"
       /\ IF owner.blocked = "NONE" /\ (started \/ Reconciles(owner, observed))
          THEN report' = "WRITTEN" /\ UNCHANGED owner
          ELSE report' = "WITHHELD" /\ owner' = Block(owner, "MISMATCH")
  /\ Goto("done")
  /\ UNCHANGED <<campaigns, durable, walk, observed, unanswered>>

\* The cleanup raises after the campaign returned: the report is written from
\* the owner as it is.
ReportAfterException ==
  /\ pc = "supplied"
  /\ report' = IF owner.blocked = "NONE" THEN "WRITTEN" ELSE "WITHHELD"
  /\ Goto("done")
  /\ UNCHANGED <<campaigns, durable, walk, observed, owner, unanswered>>

(***************************************************************************)
(* The process dies, perhaps after the front door has committed the        *)
(* cooldowns of a round and before the supply has committed the rest.      *)
(***************************************************************************)
Crash ==
  /\ pc \notin {"idle", "done", "dead"}
  /\ \/ UNCHANGED cooling
     \/ /\ pc = "walk" /\ NextStop = "NOT_STARTED"
        /\ \E S \in BoundedRefreshRows(RoundSize) : \E below \in SUBSET Called(S) :
             cooling' = cooling \cup below
  /\ Goto("dead")
  /\ UNCHANGED <<campaigns, registry, reserve, certificate, report, walk, observed, owner, unanswered>>

Supply == Locate \/ DiscoverMigration \/ Begin \/ Round \/ LeaveLoop

Coordinator == StageRaises \/ Withhold \/ Finalize \/ ReportAfterException

Next == Launch \/ Supply \/ Coordinator \/ Crash

Spec == Init /\ [][Next]_vars

-----------------------------------------------------------------------------
\* Properties.

(***************************************************************************)
(* The rounds of one campaign never make its owner refuse a stage: every   *)
(* exact pair is asked for once, so no transport comes in twice, although  *)
(* each round makes its own choice from the registry.                      *)
(***************************************************************************)
NothingMeasuredTwice == owner.blocked \notin {"DUPLICATE_STAGE_ID", "DUPLICATE_TRANSPORT"}

(***************************************************************************)
(* Nor do they reach the ceiling of the DexScreener ledger, which also     *)
(* counts the two requests the budget takes for one locator operation: the *)
(* budget, which a round may overshoot by one, stops the loop before it.   *)
(***************************************************************************)
BudgetFitsTheLedger == owner.blocked # "STAGE_TRANSPORT_CEILING"

(***************************************************************************)
(* "Stale rows never count toward eligible capacity until revalidated"     *)
(* (eligible_token_supply.py:704), across campaigns and crashes: while the *)
(* loop runs, the fresh rows are the eligible mints, and each of them was  *)
(* measured in this campaign.                                              *)
(***************************************************************************)
StaleNeverCounts ==
  pc \in {"walk", "supplied"} =>
    /\ eligible = {m \in Mint : reserve[m] = "ELIGIBLE_FRESH"}
    /\ \A m \in eligible : Dex(m) \in observed

(***************************************************************************)
(* No market work is spent on a known mint this campaign could not claim.  *)
(***************************************************************************)
BarredCostsNothing == \A m \in barred : Dex(m) \notin observed

(***************************************************************************)
(* Every exact pair that is asked for is worth its request: no round asks  *)
(* for one a second time, and none for a mint that is barred.              *)
(***************************************************************************)
NothingMeasuredInVain == NothingMeasuredTwice /\ BarredCostsNothing

(***************************************************************************)
(* max_rounds, which calls every candidate evaluated, is not what stops a  *)
(* loop that has a mint to look at and a whole batch to spend on it,       *)
(* although a round may be short for a focus on the reserve and cost       *)
(* nothing for its cooldowns: only rounds cut short by a budget that is    *)
(* running out can use the limit up.                                       *)
(***************************************************************************)
LimitIsNotPremature ==
  pc = "walk" /\ Unexplored # {} /\ Remaining >= BatchSize => rounds < MaxRounds

(***************************************************************************)
(* "Provider unavailability, budget, and duration are never reported as    *)
(* true market insufficiency" (classify_shortage): a campaign that         *)
(* certifies it has been through the whole registry, and in none of its    *)
(* rounds was there a mint that a source did not answer for.               *)
(***************************************************************************)
CertificateHonest ==
  certificate = "TRUE_MARKET_SUPPLY_SHORTAGE" =>
    registry = evaluated /\ unanswered = {} /\ barred = {} /\ Cardinality(eligible) < Required

(***************************************************************************)
(* A terminal report is written only of an accounting that holds exactly   *)
(* the transports that were seen when they were measured, including when   *)
(* the comparison itself is skipped.                                       *)
(***************************************************************************)
ReportedIsMeasured == report = "WRITTEN" => owner.blocked = "NONE" /\ owner.ledger = observed

(***************************************************************************)
(* The loop comes to an end because every round that is not its last       *)
(* settles a mint it had not settled before: a reserve that is focused on, *)
(* a cooldown that costs nothing or a budget that is not spent never makes *)
(* it go round in place.                                                   *)
(***************************************************************************)
RoundsMakeProgress ==
  [][pc = "walk" /\ pc' = "walk" => evaluated \subseteq evaluated' /\ evaluated # evaluated']_vars

(***************************************************************************)
(* "ACCOUNTING_BLOCKED is an immediate campaign safe stop: existing        *)
(* registry candidates must not continue toward selection during this      *)
(* attempt" (direct_migration_discovery.py:707).                           *)
(***************************************************************************)
WithheldIsNotSelected == withheld => eligible = {}
=============================================================================
