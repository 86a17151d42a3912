------------------------ MODULE EligibleSupplyProofs ------------------------
(***************************************************************************)
(* Theorems about EligibleSupply, for every set of mints, every batch,     *)
(* budget and ceiling, and any number of campaigns, exceptions and crashes.*)
(***************************************************************************)
EXTENDS EligibleSupply, FiniteSetTheorems, TLAPS

Early   == {"idle", "locate", "discover", "begin"}
Running == Early \cup {"walk", "supplied"}
Fixed   == {Dex("profiles"), Dex("pairs"), Direct("migration")}

-----------------------------------------------------------------------------
(* The inductive invariant *)

(* While nothing was raised the owner holds what was seen; a report is the   *)
(* last thing a campaign writes.                                             *)
LedgerInv ==
  /\ pc \in Running => owner.blocked = "NONE" /\ owner.ledger = observed
  /\ report # "NONE" => pc = "done"
  /\ ReportedIsMeasured /\ NothingMeasuredTwice

(* What has been measured, and by which stages, at each place.               *)
MeasuredInv ==
  /\ pc \in {"idle", "locate"} => observed = {} /\ owner.stages = {}
  /\ pc = "discover" => /\ observed \subseteq Fixed \ {Direct("migration")}
                        /\ owner.stages \subseteq {<<"LOCATOR", 1>>}
  /\ pc = "begin" => /\ observed \subseteq Fixed
                     /\ owner.stages \subseteq {<<"LOCATOR", 1>>, <<"DIRECT_MIGRATION", 1>>}
  /\ pc = "walk" =>
       /\ \A m \in Mint : Dex(m) \in observed => m \in evaluated
       /\ \A n \in Nat : <<"EXACT_LIQUIDITY", n>> \in owner.stages => n <= rounds
  /\ barred \subseteq evaluated
  /\ BarredCostsNothing

(* Before the loop nothing is evaluated, and only graduates have a row.      *)
FreshInv ==
  /\ pc \in Early => evaluated = {} /\ eligible = {} /\ barred = {}
  /\ \A m \in Mint \ registry : reserve[m] = "OUT"
  /\ StaleNeverCounts

(* A mint nobody answered for leaves its kind of failure behind.             *)
CertificateInv ==
  /\ pc \in Early \cup {"walk"} => certificate = "NONE"
  /\ pc \in Early => unanswered = {}
  /\ pc = "walk" /\ unanswered # {} => failing \cap SourceFailure # {}
  /\ CertificateHonest

SupplyInv == TypeOK /\ LedgerInv /\ MeasuredInv /\ FreshInv /\ CertificateInv

-----------------------------------------------------------------------------
(* Transports, rounds and stages *)

(* The exact pair of a mint is no other transport.                           *)
LEMMA Targets ==
  /\ \A a, b : Dex(a) = Dex(b) => a = b
  /\ \A a, b : Dex(a) # Direct(b)
  /\ \A m \in Mint : Dex(m) \notin Fixed
  /\ \A m \in Mint : Dex(m) \in Transport
  /\ Fixed \subseteq Transport
<1>1. \A a, b : Dex(a) = Dex(b) => a = b
  <2>1. \A a : Dex(a).target = a BY DEF Dex
  <2> QED BY <2>1
<1>2. \A a, b : Dex(a) # Direct(b)
  <2>1. \A a : Dex(a).group = "DEXSCREENER_DISCOVERY" /\ Direct(a).group = "DIRECT"
    BY DEF Dex, Direct
  <2> QED BY <2>1
<1>3. \A m \in Mint : m # "profiles" /\ m # "pairs"
  BY SupplyAssumption
<1> QED BY <1>1, <1>2, <1>3 DEF Fixed, Transport

(* A round takes unexplored mints; whoever is proven in it was measured.     *)
LEMMA RoundFacts ==
  ASSUME TypeOK, NEW n, NEW S \in BoundedRefreshRows(n),
         NEW f \in Findings(S), NEW M \in Measured(f)
  PROVE  /\ S \subseteq registry /\ S \cap evaluated = {}
         /\ DOMAIN f = S /\ M \subseteq S /\ M \subseteq Called(S)
         /\ \A out : Found(f, out) \subseteq S
         /\ Found(f, "PROVEN") \subseteq M
         /\ Failed(f) \subseteq S
         /\ \A m \in S : f[m] \in Outcome
<1>1. S \subseteq RoundPool
  BY DEF BoundedRefreshRows
<1>2. RoundPool \subseteq Unexplored
  BY DEF RoundPool
<1>3. f \in [S -> Outcome] /\ \A m \in S : f[m] = "COOLDOWN_SKIP" <=> m \in cooling
  BY DEF Findings
<1>4. PICK U \in SUBSET Failed(f) : M = Called(S) \ U
  BY <1>3 DEF Measured
<1>5. "PROVEN" \notin SourceFailure
  BY SupplyAssumption
<1>6. Found(f, "PROVEN") \subseteq Called(S) \ Failed(f)
  BY <1>3, <1>5 DEF Found, Failed, Called
<1> QED BY <1>1, <1>2, <1>3, <1>4, <1>6 DEF Unexplored, Found, Failed, Called

(* The mints of a partial round are unexplored too.                          *)
LEMMA PartialRound ==
  ASSUME TypeOK, NEW n, NEW S \in BoundedRefreshRows(n)
  PROVE  S \subseteq registry /\ S \cap evaluated = {}
BY DEF BoundedRefreshRows, RoundPool, Unexplored

(* Sealing a stage keeps the types, and the owner that held what was seen    *)
(* either holds it again or something is raised; a new stage of transports   *)
(* that were not seen before is no duplicate.                                *)
LEMMA Sealing ==
  ASSUME TypeOK, owner.blocked = "NONE", owner.ledger = observed,
         NEW id \in StageId, NEW T \in SUBSET Transport, NEW next \in Place,
         SealStage(id, T, next)
  PROVE  /\ observed' = observed \cup T /\ observed' \subseteq Transport
         /\ owner' \in [ledger : SUBSET Transport, stages : SUBSET StageId, blocked : BlockReason]
         /\ pc' \in {next, "raised"}
         /\ pc' # "raised" => /\ owner'.blocked = "NONE" /\ owner'.ledger = observed'
                              /\ owner'.stages = owner.stages \cup {id}
         /\ id \notin owner.stages /\ T \cap observed = {} =>
              owner'.blocked \notin {"DUPLICATE_STAGE_ID", "DUPLICATE_TRANSPORT"}
<1> DEFINE fault == IngestFault(owner, id, T)
<1>1. owner = [ledger |-> owner.ledger, stages |-> owner.stages, blocked |-> owner.blocked]
  BY DEF TypeOK
<1>2. fault \in BlockReason
  BY DEF IngestFault, BlockReason
<1>3. /\ observed' = observed \cup T
      /\ owner' = IF Sealable(T) THEN Ingest(owner, id, T) ELSE owner
      /\ pc' = IF Sealable(T) /\ fault = "NONE" THEN next ELSE "raised"
  BY DEF SealStage, Taken, Goto
<1>4. Ingest(owner, id, T) =
        IF fault = "NONE" THEN [owner EXCEPT !.ledger = owner.ledger \cup T,
                                             !.stages = owner.stages \cup {id}]
        ELSE [owner EXCEPT !.blocked = fault]
  BY DEF Ingest, Block
<1>5. id \notin owner.stages /\ T \cap observed = {} =>
        fault \notin {"DUPLICATE_STAGE_ID", "DUPLICATE_TRANSPORT"}
  BY DEF IngestFault
<1> HIDE DEF fault
<1>6. /\ observed \subseteq Transport /\ owner.ledger \subseteq Transport
      /\ owner.stages \subseteq StageId /\ owner.blocked = "NONE" /\ owner.blocked \in BlockReason
  BY DEF TypeOK
<1>7. CASE ~Sealable(T)
  BY <1>1, <1>3, <1>6, <1>7
<1>8. CASE Sealable(T) /\ fault = "NONE"
  <2>1. owner' = [ledger |-> owner.ledger \cup T, stages |-> owner.stages \cup {id},
                  blocked |-> "NONE"]
    BY <1>1, <1>3, <1>4, <1>6, <1>8
  <2> QED BY <1>3, <1>6, <1>8, <2>1
<1>9. CASE Sealable(T) /\ fault # "NONE"
  <2>1. owner' = [ledger |-> owner.ledger, stages |-> owner.stages, blocked |-> fault]
    BY <1>1, <1>3, <1>4, <1>9
  <2> QED BY <1>2, <1>3, <1>5, <1>6, <1>9, <2>1
<1> QED BY <1>7, <1>8, <1>9

-----------------------------------------------------------------------------
(* Every step keeps the inductive invariant *)

(* The owner of a campaign that begins.                                      *)
LEMMA EmptyOwnerType ==
  EmptyOwner \in [ledger : SUBSET Transport, stages : SUBSET StageId, blocked : BlockReason]
BY DEF EmptyOwner, BlockReason

(* It holds of a database with any history.                                  *)
LEMMA InitSupply == Init => SupplyInv
<1> SUFFICES ASSUME Init PROVE SupplyInv
  OBVIOUS
<1>1. TypeOK
  <2>1. /\ pc \in Place /\ certificate \in Shortage /\ stop \in StopReason
        /\ campaigns \in 0 .. MaxCampaigns /\ ops \in Nat /\ rounds \in Nat
    BY SupplyAssumption DEF Init, Place, Shortage, StopReason
  <2>2. registry \subseteq Mint /\ cooling \subseteq Mint /\ reserve \in [Mint -> ReserveStatus]
    BY DEF Init
  <2> QED BY <2>1, <2>2, EmptyOwnerType DEF Init, TypeOK
<1>2. LedgerInv /\ MeasuredInv /\ FreshInv
  BY DEF Init, LedgerInv, MeasuredInv, FreshInv, Running, Early, EmptyOwner, ReportedIsMeasured,
     NothingMeasuredTwice, BarredCostsNothing, StaleNeverCounts
<1>3. CertificateInv
  BY DEF Init, CertificateInv, CertificateHonest, Early
<1> QED BY <1>1, <1>2, <1>3 DEF SupplyInv

(* A launch starts from nothing but what is durable.                         *)
LEMMA LaunchSupply == SupplyInv /\ Launch => SupplyInv'
<1> SUFFICES ASSUME SupplyInv, Launch PROVE SupplyInv'
  OBVIOUS
<1>1. TypeOK'
  <2>1. campaigns' \in 0 .. MaxCampaigns
    BY SupplyAssumption DEF SupplyInv, Launch, TypeOK
  <2>2. /\ pc' \in Place /\ certificate' \in Shortage /\ stop' \in StopReason
        /\ ops' \in Nat /\ rounds' \in Nat
    BY DEF Launch, Goto, Place, Shortage, StopReason
  <2>3. registry' \subseteq Mint /\ cooling' \subseteq Mint /\ reserve' \in [Mint -> ReserveStatus]
    BY DEF SupplyInv, Launch, TypeOK
  <2> QED BY <2>1, <2>2, <2>3, EmptyOwnerType DEF Launch, TypeOK
<1>2. LedgerInv' /\ MeasuredInv' /\ FreshInv'
  BY DEF Launch, SupplyInv, LedgerInv, MeasuredInv, FreshInv, Running, Early, EmptyOwner,
     ReportedIsMeasured, NothingMeasuredTwice, BarredCostsNothing, StaleNeverCounts, Goto
<1>3. CertificateInv'
  BY DEF Launch, CertificateInv, CertificateHonest, Early, Goto
<1> QED BY <1>1, <1>2, <1>3 DEF SupplyInv

(* The locator is the first stage.                                           *)
LEMMA LocateSupply == SupplyInv /\ Locate => SupplyInv'
<1> SUFFICES ASSUME SupplyInv, Locate PROVE SupplyInv'
  OBVIOUS
<1>1. PICK T \in {{}, {Dex("profiles")}, {Dex("profiles"), Dex("pairs")}}, failed \in BOOLEAN :
        /\ SealStage(<<"LOCATOR", 1>>, T, "discover")
        /\ failing' = IF failed THEN {"DISCOVERY"} ELSE {}
  BY DEF Locate
<1>2. /\ T \in SUBSET Transport /\ T \subseteq Fixed \ {Direct("migration")}
      /\ <<"LOCATOR", 1>> \in StageId /\ "discover" \in Place
  BY Targets DEF StageId, Place, Fixed
<1>3. /\ pc = "locate" /\ observed = {} /\ owner.stages = {}
      /\ owner.blocked = "NONE" /\ owner.ledger = observed
  BY DEF Locate, SupplyInv, LedgerInv, MeasuredInv, Running, Early
<1>4. /\ observed' = observed \cup T /\ observed' \subseteq Transport
      /\ owner' \in [ledger : SUBSET Transport, stages : SUBSET StageId, blocked : BlockReason]
      /\ pc' \in {"discover", "raised"}
      /\ pc' # "raised" => /\ owner'.blocked = "NONE" /\ owner'.ledger = observed'
                           /\ owner'.stages = owner.stages \cup {<<"LOCATOR", 1>>}
      /\ owner'.blocked \notin {"DUPLICATE_STAGE_ID", "DUPLICATE_TRANSPORT"}
  BY <1>1, <1>2, <1>3, Sealing DEF SupplyInv
<1>5. TypeOK'
  BY <1>1, <1>4 DEF SupplyInv, TypeOK, Locate, durable, Place
<1>6. LedgerInv'
  BY <1>4, <1>3 DEF SupplyInv, LedgerInv, Locate, durable, Running, Early, ReportedIsMeasured,
     NothingMeasuredTwice
<1>7. MeasuredInv'
  BY <1>2, <1>3, <1>4, Targets DEF SupplyInv, MeasuredInv, FreshInv, Locate, Early,
     BarredCostsNothing
<1>8. FreshInv'
  BY <1>3, <1>4 DEF SupplyInv, FreshInv, Locate, durable, Early, StaleNeverCounts
<1>9. CertificateInv'
  BY <1>3, <1>4 DEF SupplyInv, CertificateInv, Locate, durable, Early, CertificateHonest
<1> QED BY <1>5, <1>6, <1>7, <1>8, <1>9 DEF SupplyInv

(* The migration discovery is the second, and spends no DexScreener request. *)
LEMMA DiscoverSupply == SupplyInv /\ DiscoverMigration => SupplyInv'
<1> SUFFICES ASSUME SupplyInv, DiscoverMigration PROVE SupplyInv'
  OBVIOUS
<1>1. PICK confirmed \in SUBSET Mint, requests \in 1 .. MaxDirect,
           T \in {{}, {Direct("migration")}}, failed \in BOOLEAN, reconciled \in BOOLEAN :
        /\ SealStage(<<"DIRECT_MIGRATION", 1>>, T, "begin")
        /\ registry' = registry \cup confirmed
        /\ latest' = confirmed
        /\ withheld' = ~reconciled
        /\ ops' = ops + requests
        /\ failing' = IF failed THEN failing \cup {"DISCOVERY"} ELSE failing
  BY DEF DiscoverMigration
<1>2. /\ T \in SUBSET Transport /\ T \subseteq {Direct("migration")} /\ Direct("migration") \in Fixed
      /\ <<"DIRECT_MIGRATION", 1>> \in StageId /\ "begin" \in Place
  BY Targets DEF StageId, Place, Fixed
<1>3. /\ pc = "discover" /\ observed \subseteq Fixed \ {Direct("migration")}
      /\ owner.stages \subseteq {<<"LOCATOR", 1>>}
      /\ owner.blocked = "NONE" /\ owner.ledger = observed
  BY DEF DiscoverMigration, SupplyInv, LedgerInv, MeasuredInv, Running, Early
<1>4. /\ <<"DIRECT_MIGRATION", 1>> \notin owner.stages /\ T \cap observed = {}
  BY <1>2, <1>3
<1>5. /\ observed' = observed \cup T /\ observed' \subseteq Transport
      /\ owner' \in [ledger : SUBSET Transport, stages : SUBSET StageId, blocked : BlockReason]
      /\ pc' \in {"begin", "raised"}
      /\ pc' # "raised" => /\ owner'.blocked = "NONE" /\ owner'.ledger = observed'
                           /\ owner'.stages = owner.stages \cup {<<"DIRECT_MIGRATION", 1>>}
      /\ owner'.blocked \notin {"DUPLICATE_STAGE_ID", "DUPLICATE_TRANSPORT"}
  BY <1>1, <1>2, <1>3, <1>4, Sealing DEF SupplyInv
<1>6. TypeOK'
  <2>1. ops' \in Nat
    BY <1>1, SupplyAssumption DEF SupplyInv, TypeOK
  <2> QED BY <1>1, <1>5, <2>1 DEF SupplyInv, TypeOK, DiscoverMigration, Place
<1>7. LedgerInv'
  BY <1>5, <1>3 DEF SupplyInv, LedgerInv, DiscoverMigration, Running, Early, ReportedIsMeasured,
     NothingMeasuredTwice
<1>8. MeasuredInv'
  BY <1>2, <1>3, <1>5, Targets DEF SupplyInv, MeasuredInv, FreshInv, DiscoverMigration, Early,
     BarredCostsNothing
<1>9. FreshInv'
  BY <1>1, <1>3, <1>5 DEF SupplyInv, FreshInv, DiscoverMigration, Early, StaleNeverCounts
<1>10. CertificateInv'
  BY <1>3, <1>5 DEF SupplyInv, CertificateInv, DiscoverMigration, Early, CertificateHonest
<1> QED BY <1>6, <1>7, <1>8, <1>9, <1>10 DEF SupplyInv

(* The reserve becomes stale, and whoever is barred counts as evaluated.     *)
LEMMA BeginSupply == SupplyInv /\ Begin => SupplyInv'
<1> SUFFICES ASSUME SupplyInv, Begin PROVE SupplyInv'
  OBVIOUS
<1>1. /\ pc = "begin" /\ pc' = "walk"
      /\ observed \subseteq Fixed /\ owner.stages \subseteq {<<"LOCATOR", 1>>, <<"DIRECT_MIGRATION", 1>>}
      /\ eligible = {} /\ evaluated = {} /\ unanswered = {}
      /\ UNCHANGED <<campaigns, registry, cooling, certificate, report, latest, withheld,
                     eligible, ops, rounds, failing, stop, observed, owner, unanswered>>
  BY DEF Begin, Goto, SupplyInv, MeasuredInv, FreshInv, CertificateInv, Early
<1>2. PICK refused \in SUBSET registry :
        LET out == refused \cap registry
        IN /\ barred' = refused
           /\ evaluated' = out
           /\ reserve' = [m \in Mint |-> IF m \notin prior' THEN reserve[m]
                                         ELSE IF m \in out THEN "OUT" ELSE "ELIGIBLE_STALE"]
  BY DEF Begin, Prechecked
<1>3. barred' \subseteq registry /\ evaluated' = barred'
  BY <1>2
<1>4. prior' = {m \in registry : reserve[m] \in {"ELIGIBLE_FRESH", "ELIGIBLE_STALE"}}
  BY DEF Begin, LoadReserve
<1>5. \A m \in Mint : reserve'[m] \in {"OUT", "ELIGIBLE_STALE"} /\ (m \notin registry => reserve'[m] = "OUT")
  BY <1>2, <1>4 DEF SupplyInv, TypeOK, FreshInv, ReserveStatus
<1>6. TypeOK'
  <2>1. reserve' \in [Mint -> ReserveStatus]
    BY <1>2, <1>5 DEF ReserveStatus
  <2> QED BY <1>1, <1>3, <1>4, <2>1 DEF SupplyInv, TypeOK, Place
<1>7. LedgerInv'
  BY <1>1 DEF SupplyInv, LedgerInv, Running, Early, ReportedIsMeasured, NothingMeasuredTwice
<1>8. MeasuredInv'
  <2>1. \A m \in Mint : Dex(m) \notin observed'
    BY <1>1, Targets
  <2>2. \A n \in Nat : <<"EXACT_LIQUIDITY", n>> \notin owner'.stages
    BY <1>1
  <2>3. barred' \subseteq Mint
    BY <1>3 DEF SupplyInv, TypeOK
  <2> QED BY <1>1, <1>3, <2>1, <2>2, <2>3 DEF MeasuredInv, BarredCostsNothing
<1>9. FreshInv'
  BY <1>1, <1>5 DEF FreshInv, StaleNeverCounts, Early
<1>10. CertificateInv'
  BY <1>1 DEF SupplyInv, CertificateInv, CertificateHonest, Early
<1> QED BY <1>6, <1>7, <1>8, <1>9, <1>10 DEF SupplyInv

(* What a round, whole or partial, does to the ledger: it asks for exact     *)
(* pairs nobody asked for, so neither its stage nor a transport comes twice, *)
(* and spends nothing on who is barred.                                      *)
LEMMA RoundStage ==
  ASSUME SupplyInv, pc = "walk", NEW S \in SUBSET registry, S \cap evaluated = {},
         NEW M \in SUBSET S, NEW next \in Place,
         SealStage(<<"EXACT_LIQUIDITY", rounds + 1>>, {Dex(m) : m \in M}, next)
  PROVE  /\ observed' = observed \cup {Dex(m) : m \in M} /\ observed' \subseteq Transport
         /\ owner' \in [ledger : SUBSET Transport, stages : SUBSET StageId, blocked : BlockReason]
         /\ pc' \in {next, "raised"}
         /\ pc' # "raised" =>
              /\ owner'.blocked = "NONE" /\ owner'.ledger = observed'
              /\ \A n \in Nat : <<"EXACT_LIQUIDITY", n>> \in owner'.stages => n <= rounds + 1
         /\ owner'.blocked \notin {"DUPLICATE_STAGE_ID", "DUPLICATE_TRANSPORT"}
         /\ \A m \in Mint : Dex(m) \in observed' => m \in evaluated \cup M
         /\ \A m \in barred : Dex(m) \notin observed'
<1> DEFINE id == <<"EXACT_LIQUIDITY", rounds + 1>>
           T  == {Dex(m) : m \in M}
<1>1. /\ owner.blocked = "NONE" /\ owner.ledger = observed
      /\ \A m \in Mint : Dex(m) \in observed => m \in evaluated
      /\ \A n \in Nat : <<"EXACT_LIQUIDITY", n>> \in owner.stages => n <= rounds
      /\ barred \subseteq evaluated
      /\ \A m \in barred : Dex(m) \notin observed
  BY DEF SupplyInv, LedgerInv, MeasuredInv, Running, BarredCostsNothing
<1>2. rounds \in Nat /\ registry \subseteq Mint /\ evaluated \subseteq registry
  BY DEF SupplyInv, TypeOK
<1>3. id \in StageId /\ id \notin owner.stages
  <2>1. rounds + 1 \in Nat \ {0} /\ ~(rounds + 1 <= rounds)
    BY <1>2
  <2> QED BY <1>1, <2>1 DEF StageId
<1>4. T \in SUBSET Transport /\ T \cap observed = {}
  BY <1>1, <1>2, Targets
<1>5. SealStage(id, T, next) /\ TypeOK
  BY DEF SupplyInv
<1> HIDE DEF id, T
<1>6. /\ observed' = observed \cup T /\ observed' \subseteq Transport
      /\ owner' \in [ledger : SUBSET Transport, stages : SUBSET StageId, blocked : BlockReason]
      /\ pc' \in {next, "raised"}
      /\ pc' # "raised" => /\ owner'.blocked = "NONE" /\ owner'.ledger = observed'
                           /\ owner'.stages = owner.stages \cup {id}
      /\ owner'.blocked \notin {"DUPLICATE_STAGE_ID", "DUPLICATE_TRANSPORT"}
  BY <1>1, <1>3, <1>4, <1>5, Sealing
<1>7. \A n \in Nat : <<"EXACT_LIQUIDITY", n>> \in owner.stages \cup {id} => n <= rounds + 1
  BY <1>1, <1>2 DEF id
<1>8. \A m \in Mint : Dex(m) \in T => m \in M
  BY Targets DEF T
<1>9. \A m \in Mint : Dex(m) \in observed' => m \in evaluated \cup M
  BY <1>1, <1>6, <1>8
<1>10. \A m \in barred : Dex(m) \notin observed'
  BY <1>1, <1>2, <1>6, <1>8
<1> QED BY <1>6, <1>7, <1>9, <1>10 DEF T

(* A round settles its mints, or raises before it settles any.               *)
LEMMA RoundSupply == SupplyInv /\ Round => SupplyInv'
<1> SUFFICES ASSUME SupplyInv, Round PROVE SupplyInv'
  OBVIOUS
<1>1. PICK S \in BoundedRefreshRows(RoundSize) : \E f \in Findings(S) : \E M \in Measured(f) :
        /\ SealRound(f, M)
        /\ cooling' = cooling \cup Found(f, "BELOW_FLOOR")
        /\ IF pc' = "raised" THEN UNCHANGED <<reserve, evaluated, eligible, ops, rounds, failing>>
           ELSE Settle(S, f)
        /\ unanswered' = unanswered \cup Failed(f)
  BY DEF Round
<1>2a. PICK f \in Findings(S) : \E M \in Measured(f) :
        /\ SealRound(f, M)
        /\ cooling' = cooling \cup Found(f, "BELOW_FLOOR")
        /\ IF pc' = "raised" THEN UNCHANGED <<reserve, evaluated, eligible, ops, rounds, failing>>
           ELSE Settle(S, f)
        /\ unanswered' = unanswered \cup Failed(f)
  BY <1>1
<1>2. PICK M \in Measured(f) :
        /\ SealRound(f, M)
        /\ cooling' = cooling \cup Found(f, "BELOW_FLOOR")
        /\ IF pc' = "raised" THEN UNCHANGED <<reserve, evaluated, eligible, ops, rounds, failing>>
           ELSE Settle(S, f)
        /\ unanswered' = unanswered \cup Failed(f)
  BY <1>2a
<1> DEFINE proven == Found(f, "PROVEN")
<1>3. /\ S \subseteq registry /\ S \cap evaluated = {} /\ DOMAIN f = S
      /\ M \subseteq S /\ proven \subseteq M /\ Failed(f) \subseteq S
      /\ Found(f, "BELOW_FLOOR") \subseteq S
  BY RoundFacts DEF SupplyInv
<1>4. /\ pc = "walk"
      /\ UNCHANGED <<campaigns, registry, certificate, report, latest, withheld, barred, prior, stop>>
  BY DEF Round
<1>5. /\ TypeOK /\ registry \subseteq Mint /\ rounds \in Nat /\ evaluated \subseteq registry
      /\ eligible \subseteq evaluated /\ barred \subseteq evaluated
      /\ eligible = {m \in Mint : reserve[m] = "ELIGIBLE_FRESH"}
      /\ \A m \in eligible : Dex(m) \in observed
      /\ owner.blocked = "NONE" /\ owner.ledger = observed /\ report = "NONE"
      /\ certificate = "NONE" /\ reserve \in [Mint -> ReserveStatus]
  BY <1>4 DEF SupplyInv, TypeOK, LedgerInv, MeasuredInv, FreshInv, CertificateInv, Running,
     StaleNeverCounts
<1>6. /\ observed' = observed \cup {Dex(m) : m \in M} /\ observed' \subseteq Transport
      /\ owner' \in [ledger : SUBSET Transport, stages : SUBSET StageId, blocked : BlockReason]
      /\ pc' \in {"walk", "raised"}
      /\ pc' # "raised" =>
           /\ owner'.blocked = "NONE" /\ owner'.ledger = observed'
           /\ \A n \in Nat : <<"EXACT_LIQUIDITY", n>> \in owner'.stages => n <= rounds + 1
      /\ owner'.blocked \notin {"DUPLICATE_STAGE_ID", "DUPLICATE_TRANSPORT"}
      /\ \A m \in Mint : Dex(m) \in observed' => m \in evaluated \cup M
      /\ \A m \in barred : Dex(m) \notin observed'
  <2>1. CASE Called(S) = {}
    <3>1. pc' = "walk" /\ observed' = observed /\ owner' = owner
      BY <1>2, <1>3, <2>1 DEF SealRound, Goto
    <3>2. M = {}
      BY <2>1, RoundFacts DEF SupplyInv
    <3>3. /\ \A n \in Nat : <<"EXACT_LIQUIDITY", n>> \in owner.stages => n <= rounds
          /\ \A m \in Mint : Dex(m) \in observed => m \in evaluated
          /\ \A m \in barred : Dex(m) \notin observed
      BY <1>4 DEF SupplyInv, MeasuredInv, BarredCostsNothing
    <3>4. \A n \in Nat : n <= rounds => n <= rounds + 1
      BY <1>5
    <3>5. /\ observed \subseteq Transport /\ owner \in
               [ledger : SUBSET Transport, stages : SUBSET StageId, blocked : BlockReason]
      BY <1>5 DEF TypeOK
    <3> QED BY <3>1, <3>2, <3>3, <3>4, <3>5, <1>5
  <2>2. CASE Called(S) # {}
    <3>1. SealStage(<<"EXACT_LIQUIDITY", rounds + 1>>, {Dex(m) : m \in M}, "walk")
      BY <1>2, <1>3, <2>2 DEF SealRound
    <3>2. "walk" \in Place /\ S \in SUBSET registry /\ M \in SUBSET S
      BY <1>3 DEF Place
    <3> QED BY <3>1, <3>2, <1>3, <1>4, RoundStage
  <2> QED BY <2>1, <2>2
<1> DEFINE below == Found(f, "BELOW_FLOOR")
<1>7. /\ cooling' = cooling \cup below /\ below \subseteq S
      /\ unanswered' = unanswered \cup Failed(f)
      /\ pc' = "raised" => UNCHANGED <<reserve, evaluated, eligible, ops, rounds, failing>>
      /\ pc' # "raised" => Settle(S, f)
  BY <1>2, <1>3
<1>8. CASE pc' = "raised"
  <2>1. UNCHANGED <<reserve, evaluated, eligible, ops, rounds, failing>>
    BY <1>7, <1>8
  <2>2. TypeOK'
    <3> HIDE DEF below
    <3> QED BY <1>3, <1>4, <1>5, <1>6, <1>7, <2>1 DEF TypeOK, Place
  <2>3. LedgerInv'
    BY <1>4, <1>5, <1>6, <1>8 DEF LedgerInv, Running, Early, ReportedIsMeasured, NothingMeasuredTwice
  <2>4. MeasuredInv'
    BY <1>4, <1>5, <1>6, <1>8, <2>1 DEF MeasuredInv, BarredCostsNothing
  <2>5. FreshInv'
    BY <1>4, <1>8, <2>1 DEF SupplyInv, FreshInv, Early, StaleNeverCounts
  <2>6. CertificateInv'
    BY <1>4, <1>5, <1>8 DEF CertificateInv, Early, CertificateHonest
  <2> QED BY <2>2, <2>3, <2>4, <2>5, <2>6 DEF SupplyInv
<1>9. CASE pc' # "raised"
  <2>1. /\ evaluated' = evaluated \cup S
        /\ eligible' = eligible \cup proven
        /\ reserve' = [m \in Mint |-> IF m \in proven THEN "ELIGIBLE_FRESH"
                                     ELSE IF m \in S \cap prior THEN "OUT" ELSE reserve[m]]
        /\ ops' = ops + Cardinality(Called(S))
        /\ rounds' = rounds + 1
        /\ failing' = failing \cup {f[m] : m \in Failed(f)}
        /\ pc' = "walk"
    BY <1>6, <1>7, <1>9 DEF Settle, FailureKinds
  <2>2. Failed(f) \subseteq S /\ \A m \in Failed(f) : f[m] \in SourceFailure
    BY <1>3 DEF Failed
  <2>3. TypeOK'
    <3>1. ops' \in Nat /\ rounds' \in Nat
      <4>1. IsFiniteSet(Called(S))
        BY <1>3, <1>5, SupplyAssumption, FS_Subset DEF Called
      <4>2. Cardinality(Called(S)) \in Nat
        BY <4>1, FS_CardinalityType
      <4> QED BY <1>5, <2>1, <4>2 DEF TypeOK
    <3>2. reserve' \in [Mint -> ReserveStatus]
      BY <1>5, <2>1 DEF ReserveStatus
    <3>3. failing' \subseteq SourceFailure \cup {"DISCOVERY"}
      BY <1>5, <2>1, <2>2 DEF TypeOK
    <3>4. evaluated' \subseteq registry /\ eligible' \subseteq evaluated'
      BY <1>3, <1>5, <2>1
    <3>5. cooling' \subseteq Mint /\ unanswered' \subseteq registry
      BY <1>3, <1>5, <1>7 DEF TypeOK
    <3> HIDE DEF below, proven
    <3> QED BY <1>4, <1>5, <1>6, <2>1, <3>1, <3>2, <3>3, <3>4, <3>5 DEF TypeOK, Place
  <2>4. LedgerInv'
    BY <1>4, <1>5, <1>6, <1>9 DEF LedgerInv, ReportedIsMeasured, NothingMeasuredTwice
  <2>5. MeasuredInv'
    BY <1>3, <1>4, <1>5, <1>6, <1>9, <2>1 DEF MeasuredInv, BarredCostsNothing
  <2>6. FreshInv'
    <3>1. proven \subseteq Mint /\ \A m \in proven : Dex(m) \in observed'
      BY <1>3, <1>5, <1>6
    <3>2. eligible' = {m \in Mint : reserve'[m] = "ELIGIBLE_FRESH"}
      BY <1>3, <1>5, <2>1, <3>1
    <3>3. \A m \in Mint \ registry' : reserve'[m] = "OUT"
      BY <1>3, <1>4, <2>1 DEF SupplyInv, FreshInv
    <3> QED BY <1>4, <1>5, <1>6, <2>1, <3>1, <3>2, <3>3 DEF FreshInv, Early, StaleNeverCounts
  <2>7. CertificateInv'
    BY <1>4, <1>5, <1>7, <2>1, <2>2 DEF SupplyInv, CertificateInv, Early, CertificateHonest
  <2> QED BY <2>3, <2>4, <2>5, <2>6, <2>7 DEF SupplyInv
<1> QED BY <1>8, <1>9

(* The certificate of true market shortage is left for a loop that has been  *)
(* through everything and lost nothing to a source.                          *)
LEMMA LeaveLoopSupply == SupplyInv /\ LeaveLoop => SupplyInv'
<1> SUFFICES ASSUME SupplyInv, LeaveLoop PROVE SupplyInv'
  OBVIOUS
<1>. PICK late \in BOOLEAN :
       /\ stop' = LoopStop(late)
       /\ certificate' = IF Cardinality(eligible) >= Required THEN "NONE"
                         ELSE Classify(LoopStop(late), late)
  BY DEF LeaveLoop
<1>1. /\ pc = "walk" /\ pc' = "supplied"
      /\ UNCHANGED <<campaigns, registry, reserve, cooling, report, latest, withheld, barred, prior,
                     evaluated, eligible, ops, rounds, failing, observed, owner, unanswered>>
  BY DEF LeaveLoop, Goto
<1>2. Classify(LoopStop(late), late) = "TRUE_MARKET_SUPPLY_SHORTAGE" =>
        /\ {"SOURCE_UNAVAILABLE", "RATE_LIMITED_OR_STALE", "MALFORMED_OR_PARTIAL"} \cap failing = {}
        /\ barred = {} /\ Unexplored = {}
  BY DEF Classify, AllChannelsExhausted
<1>3. TypeOK'
  <2>1. LoopStop(late) \in StopReason
    BY DEF LoopStop, NextStop, StopReason
  <2>2. Classify(LoopStop(late), late) \in Shortage
    BY DEF Classify, Shortage
  <2> QED BY <1>1, <2>1, <2>2 DEF SupplyInv, TypeOK, Place, Shortage
<1>4. LedgerInv' /\ MeasuredInv' /\ FreshInv'
  BY <1>1 DEF SupplyInv, LedgerInv, MeasuredInv, FreshInv, Running, Early, ReportedIsMeasured,
     NothingMeasuredTwice, BarredCostsNothing, StaleNeverCounts
<1>5. CertificateHonest'
  <2> SUFFICES ASSUME certificate' = "TRUE_MARKET_SUPPLY_SHORTAGE"
      PROVE  registry = evaluated /\ unanswered = {} /\ barred = {} /\ Cardinality(eligible) < Required
    BY <1>1 DEF CertificateHonest
  <2>1. ~(Cardinality(eligible) >= Required) /\ Classify(LoopStop(late), late) = "TRUE_MARKET_SUPPLY_SHORTAGE"
    BY <1>1
  <2>2. Cardinality(eligible) \in Nat /\ Required \in Nat
    <3>1. IsFiniteSet(eligible)
      BY SupplyAssumption, FS_Subset DEF SupplyInv, TypeOK
    <3> QED BY <3>1, FS_CardinalityType, SupplyAssumption
  <2>3. Cardinality(eligible) < Required
    BY <2>1, <2>2
  <2>4. registry = evaluated
    BY <1>2, <2>1 DEF SupplyInv, TypeOK, Unexplored
  <2>5. unanswered = {}
    <3>1. failing \cap SourceFailure = {}
      BY <1>2, <2>1, SupplyAssumption
    <3> QED BY <1>1, <3>1 DEF SupplyInv, CertificateInv
  <2> QED BY <1>2, <2>1, <2>3, <2>4, <2>5
<1>6. CertificateInv'
  BY <1>1, <1>5 DEF CertificateInv, Early
<1> QED BY <1>3, <1>4, <1>6 DEF SupplyInv

(* What a stage measured before it raised is sealed and blamed on nobody     *)
(* else; the report is withheld by the raise itself.                         *)
LEMMA StageRaisesSupply == SupplyInv /\ StageRaises => SupplyInv'
<1> SUFFICES ASSUME SupplyInv, StageRaises PROVE SupplyInv'
  OBVIOUS
<1>1. /\ UNCHANGED <<campaigns, registry, reserve, certificate, report, walk, unanswered>>
      /\ pc \in Running \ {"idle"}
  BY DEF StageRaises, Running, Early
<1>2. /\ TypeOK /\ report = "NONE" /\ owner.blocked = "NONE" /\ owner.ledger = observed
  BY <1>1 DEF SupplyInv, LedgerInv, Running, Early
<1>3. /\ pc' = "raised" /\ cooling' \subseteq Mint /\ observed' \subseteq Transport
      /\ owner' \in [ledger : SUBSET Transport, stages : SUBSET StageId, blocked : BlockReason]
      /\ owner'.blocked \notin {"DUPLICATE_STAGE_ID", "DUPLICATE_TRANSPORT"}
      /\ \A m \in barred : Dex(m) \notin observed'
  <2>1. CASE pc' = "raised" /\ UNCHANGED <<cooling, observed, owner>>
    BY <1>2, <2>1 DEF SupplyInv, TypeOK, MeasuredInv, BarredCostsNothing
  <2>2. CASE /\ pc = "discover" /\ UNCHANGED cooling
             /\ SealStage(<<"DIRECT_MIGRATION", 1>>, {Direct("migration")}, "raised")
    <3>1. /\ observed \subseteq Fixed \ {Direct("migration")}
          /\ owner.stages \subseteq {<<"LOCATOR", 1>>} /\ barred = {}
      BY <2>2 DEF SupplyInv, MeasuredInv, FreshInv, Early
    <3>2. /\ {Direct("migration")} \in SUBSET Transport /\ {Direct("migration")} \cap observed = {}
          /\ <<"DIRECT_MIGRATION", 1>> \in StageId /\ <<"DIRECT_MIGRATION", 1>> \notin owner.stages
          /\ "raised" \in Place
      BY <3>1, Targets DEF Fixed, StageId, Place
    <3>3. /\ observed' \subseteq Transport /\ pc' = "raised"
          /\ owner' \in [ledger : SUBSET Transport, stages : SUBSET StageId, blocked : BlockReason]
          /\ owner'.blocked \notin {"DUPLICATE_STAGE_ID", "DUPLICATE_TRANSPORT"}
      BY <1>2, <2>2, <3>2, Sealing
    <3> QED BY <1>2, <2>2, <3>1, <3>3 DEF TypeOK
  <2>3. ASSUME pc = "walk", NEW S \in BoundedRefreshRows(RoundSize), NEW M \in SUBSET Called(S),
               SealStage(<<"EXACT_LIQUIDITY", rounds + 1>>, {Dex(m) : m \in M}, "raised"),
               NEW below \in SUBSET M, cooling' = cooling \cup below
        PROVE  /\ pc' = "raised" /\ cooling' \subseteq Mint /\ observed' \subseteq Transport
               /\ owner' \in [ledger : SUBSET Transport, stages : SUBSET StageId, blocked : BlockReason]
               /\ owner'.blocked \notin {"DUPLICATE_STAGE_ID", "DUPLICATE_TRANSPORT"}
               /\ \A m \in barred : Dex(m) \notin observed'
    <3>1. S \subseteq registry /\ S \cap evaluated = {} /\ M \in SUBSET S /\ "raised" \in Place
      BY <1>2, PartialRound DEF Called, Place
    <3>2. cooling' \subseteq Mint
      BY <1>2, <2>3, <3>1 DEF TypeOK
    <3>3. S \in SUBSET registry
      BY <3>1
    <3> QED BY <2>3, <3>1, <3>2, <3>3, RoundStage
  <2> QED BY <2>1, <2>2, <2>3 DEF StageRaises, Goto
<1>4. TypeOK'
  BY <1>1, <1>2, <1>3 DEF TypeOK, walk, Place
<1>5. LedgerInv'
  BY <1>1, <1>2, <1>3 DEF LedgerInv, Running, Early, ReportedIsMeasured, NothingMeasuredTwice
<1>6. MeasuredInv'
  BY <1>1, <1>3 DEF SupplyInv, MeasuredInv, BarredCostsNothing, walk
<1>7. FreshInv'
  BY <1>1, <1>3 DEF SupplyInv, FreshInv, Early, StaleNeverCounts, walk
<1>8. CertificateInv'
  BY <1>1, <1>3 DEF SupplyInv, CertificateInv, Early, CertificateHonest, walk
<1> QED BY <1>4, <1>5, <1>6, <1>7, <1>8 DEF SupplyInv

(* The coordinator blocks or compares before it writes.                      *)
LEMMA ReportSupply == SupplyInv /\ (Withhold \/ Finalize \/ ReportAfterException) => SupplyInv'
<1> SUFFICES ASSUME SupplyInv, Withhold \/ Finalize \/ ReportAfterException PROVE SupplyInv'
  OBVIOUS
<1>1. /\ UNCHANGED <<campaigns, durable, walk, observed, unanswered>> /\ pc' = "done"
      /\ report' \in {"WRITTEN", "WITHHELD"}
  BY DEF Withhold, Finalize, ReportAfterException, Goto
<1>2. /\ owner' \in [ledger : SUBSET Transport, stages : SUBSET StageId, blocked : BlockReason]
      /\ owner'.blocked \notin {"DUPLICATE_STAGE_ID", "DUPLICATE_TRANSPORT"}
  <2>1. \A reason \in {"STAGE_FAILED", "MISMATCH"} :
          /\ Block(owner, reason) \in
               [ledger : SUBSET Transport, stages : SUBSET StageId, blocked : BlockReason]
          /\ Block(owner, reason).blocked \notin {"DUPLICATE_STAGE_ID", "DUPLICATE_TRANSPORT"}
    BY DEF SupplyInv, TypeOK, LedgerInv, NothingMeasuredTwice, Block, BlockReason
  <2>2. owner' \in {owner, Block(owner, "STAGE_FAILED"), Block(owner, "MISMATCH")}
    BY DEF Withhold, Finalize, ReportAfterException
  <2> QED BY <2>1, <2>2 DEF SupplyInv, TypeOK, LedgerInv, NothingMeasuredTwice
<1>3. report' = "WRITTEN" => owner' = owner /\ owner.blocked = "NONE" /\ owner.ledger = observed
  <2>1. pc = "supplied" => (owner.blocked = "NONE" => owner.ledger = observed)
    BY DEF SupplyInv, LedgerInv, Running
  <2> QED BY <2>1 DEF Withhold, Finalize, ReportAfterException
<1>4. TypeOK'
  BY <1>1, <1>2 DEF SupplyInv, TypeOK, durable, walk, Place
<1>5. LedgerInv'
  BY <1>1, <1>2, <1>3 DEF LedgerInv, Running, Early, ReportedIsMeasured, NothingMeasuredTwice
<1>6. MeasuredInv' /\ FreshInv'
  BY <1>1 DEF SupplyInv, MeasuredInv, FreshInv, Early, BarredCostsNothing, StaleNeverCounts,
     durable, walk
<1>7. CertificateInv'
  BY <1>1 DEF SupplyInv, CertificateInv, Early, CertificateHonest, durable, walk
<1> QED BY <1>4, <1>5, <1>6, <1>7 DEF SupplyInv

(* A crash leaves at most a cooldown behind.                                 *)
LEMMA CrashSupply == SupplyInv /\ Crash => SupplyInv'
<1> SUFFICES ASSUME SupplyInv, Crash PROVE SupplyInv'
  OBVIOUS
<1>1. /\ UNCHANGED <<campaigns, registry, reserve, certificate, report, walk, observed, owner,
                     unanswered>>
      /\ pc' = "dead" /\ report = "NONE"
  BY DEF Crash, Goto, SupplyInv, LedgerInv
<1>2. cooling' \subseteq Mint
  <2>1. ASSUME NEW S \in BoundedRefreshRows(RoundSize), NEW below \in SUBSET Called(S),
               cooling' = cooling \cup below
        PROVE  cooling' \subseteq Mint
    BY <2>1, PartialRound DEF SupplyInv, TypeOK, Called
  <2> QED BY <2>1 DEF Crash, SupplyInv, TypeOK
<1>3. TypeOK'
  BY <1>1, <1>2 DEF SupplyInv, TypeOK, walk, Place
<1>4. LedgerInv' /\ MeasuredInv' /\ FreshInv'
  BY <1>1 DEF SupplyInv, LedgerInv, MeasuredInv, FreshInv, Running, Early, ReportedIsMeasured,
     NothingMeasuredTwice, BarredCostsNothing, StaleNeverCounts, walk
<1>5. CertificateInv'
  BY <1>1 DEF SupplyInv, CertificateInv, Early, CertificateHonest, walk
<1> QED BY <1>3, <1>4, <1>5 DEF SupplyInv

(* The invariant is inductive.                                               *)
LEMMA NextSupply == SupplyInv /\ [Next]_vars => SupplyInv'
<1> SUFFICES ASSUME SupplyInv, [Next]_vars PROVE SupplyInv'
  OBVIOUS
<1>1. CASE Next
  BY <1>1, LaunchSupply, LocateSupply, DiscoverSupply, BeginSupply, RoundSupply, LeaveLoopSupply,
     StageRaisesSupply, ReportSupply, CrashSupply DEF Next, Supply, Coordinator
<1>2. CASE UNCHANGED vars
  BY <1>2 DEF vars, durable, walk, SupplyInv, TypeOK, LedgerInv, MeasuredInv, FreshInv,
     CertificateInv, ReportedIsMeasured, NothingMeasuredTwice, BarredCostsNothing,
     StaleNeverCounts, CertificateHonest
<1> QED BY <1>1, <1>2

(* Every reachable state satisfies it.                                       *)
THEOREM SupplyInvariant == Spec => []SupplyInv
BY InitSupply, NextSupply, PTL DEF Spec

-----------------------------------------------------------------------------
(* The properties *)

(* The types of the campaign and of what it leaves behind.                   *)
THEOREM TypeCorrect == Spec => []TypeOK
<1>1. SupplyInv => TypeOK BY DEF SupplyInv
<1> QED BY <1>1, SupplyInvariant, PTL

(* However the rounds choose, no exact pair is asked for twice, so a stage   *)
(* is never refused as a duplicate.                                          *)
THEOREM NoDuplicateStage == Spec => []NothingMeasuredTwice
<1>1. SupplyInv => NothingMeasuredTwice BY DEF SupplyInv, LedgerInv
<1> QED BY <1>1, SupplyInvariant, PTL

(* What is fresh was proven by this campaign, whatever earlier ones left.    *)
THEOREM FreshIsRevalidated == Spec => []StaleNeverCounts
<1>1. SupplyInv => StaleNeverCounts BY DEF SupplyInv, FreshInv
<1> QED BY <1>1, SupplyInvariant, PTL

(* A mint the tracking queue refuses costs no request.                       *)
THEOREM BarredIsFree == Spec => []BarredCostsNothing
<1>1. SupplyInv => BarredCostsNothing BY DEF SupplyInv, MeasuredInv
<1> QED BY <1>1, SupplyInvariant, PTL

(* No market check is made in vain.                                          *)
THEOREM NothingIsInVain == Spec => []NothingMeasuredInVain
BY NoDuplicateStage, BarredIsFree, PTL DEF NothingMeasuredInVain

(* A true market shortage is certified of a registry that was gone through   *)
(* and of sources that all answered.                                         *)
THEOREM ShortageIsTrue == Spec => []CertificateHonest
<1>1. SupplyInv => CertificateHonest BY DEF SupplyInv, CertificateInv
<1> QED BY <1>1, SupplyInvariant, PTL

(* A report is written of exactly what was measured.                         *)
THEOREM ReportIsExact == Spec => []ReportedIsMeasured
<1>1. SupplyInv => ReportedIsMeasured BY DEF SupplyInv, LedgerInv
<1> QED BY <1>1, SupplyInvariant, PTL

-----------------------------------------------------------------------------
(* The loop makes progress, and the ledger has room for all it does *)

(* A round of size n takes someone, n mints at most, or one of each kind.    *)
LEMMA RoundSizes ==
  ASSUME TypeOK, NEW n \in Nat \ {0}, NEW S \in BoundedRefreshRows(n), Unexplored # {}
  PROVE  /\ IsFiniteSet(S) /\ Cardinality(S) \in Nat /\ S # {}
         /\ Cardinality(S) <= n \/ (latest # {} /\ Cardinality(S) <= 2)
<1> DEFINE fresh == RoundPool \cap latest
           old   == RoundPool \ latest
           ofFresh == GreaterOf(1, n \div 2)
           ofOld   == GreaterOf(1, n - ofFresh)
           first == LesserOf(ofFresh, Cardinality(fresh)) + LesserOf(ofOld, Cardinality(old))
           total == IF fresh = {} \/ old = {} THEN LesserOf(n, Cardinality(RoundPool))
                    ELSE GreaterOf(first, LesserOf(n, Cardinality(RoundPool)))
<1>1. S \subseteq RoundPool /\ Cardinality(S) = total
  BY DEF BoundedRefreshRows
<1>2. RoundPool # {} /\ RoundPool \subseteq Mint
  BY DEF RoundPool, Unexplored, TypeOK
<1>3. IsFiniteSet(RoundPool) /\ IsFiniteSet(fresh) /\ IsFiniteSet(old) /\ IsFiniteSet(S)
  <2>1. /\ RoundPool \in SUBSET Mint /\ fresh \in SUBSET Mint /\ old \in SUBSET Mint
        /\ S \in SUBSET Mint
    BY <1>1, <1>2
  <2> HIDE DEF fresh, old
  <2> QED BY <2>1, SupplyAssumption, FS_Subset
<1>4. /\ Cardinality(RoundPool) \in Nat /\ Cardinality(RoundPool) # 0
      /\ Cardinality(fresh) \in Nat /\ Cardinality(old) \in Nat
  <2> HIDE DEF fresh, old
  <2> QED BY <1>2, <1>3, FS_CardinalityType, FS_EmptySet
<1>5. fresh # {} => latest # {}
  OBVIOUS
<1> HIDE DEF fresh, old
<1>6. ofFresh \in Nat \ {0} /\ ofOld \in Nat \ {0} /\ (n >= 2 => ofFresh + ofOld = n)
  BY DEF GreaterOf
<1> HIDE DEF ofFresh, ofOld
<1>7. first \in Nat /\ first <= ofFresh + ofOld /\ (n = 1 => ofFresh = 1 /\ ofOld = 1)
  BY <1>4, <1>6 DEF LesserOf, ofFresh, ofOld, GreaterOf
<1> HIDE DEF first
<1>8. total \in Nat \ {0} /\ (total <= n \/ (fresh # {} /\ total <= 2))
  BY <1>4, <1>6, <1>7 DEF LesserOf, GreaterOf
<1>9. Cardinality(S) \in Nat /\ Cardinality(S) # 0
  BY <1>1, <1>8
<1>10. S # {}
  BY <1>3, <1>9, FS_EmptySet
<1> QED BY <1>1, <1>3, <1>5, <1>8, <1>9, <1>10

(* A round begins with something unexplored and something left to spend.     *)
LEMMA RoundBegins ==
  ASSUME TypeOK, NextStop = "NOT_STARTED"
  PROVE  /\ Unexplored # {} /\ RoundSize \in Nat \ {0}
         /\ ops < Budget /\ RoundSize <= Budget - ops
<1>1. Unexplored # {} /\ Remaining # 0
  BY DEF NextStop
<1>2. ops \in Nat /\ Budget \in Nat /\ BatchSize \in Nat \ {0}
  BY SupplyAssumption DEF TypeOK
<1> QED BY <1>1, <1>2 DEF RoundSize, Remaining, LesserOf, GreaterOf

(* A round that does not end the loop settles a mint nobody had settled.     *)
THEOREM SupplyProgress == Spec => RoundsMakeProgress
<1>1. SupplyInv /\ [Next]_vars =>
        [pc = "walk" /\ pc' = "walk" => evaluated \subseteq evaluated' /\ evaluated # evaluated']_vars
  <2> SUFFICES ASSUME SupplyInv, Next, pc = "walk", pc' = "walk"
               PROVE  evaluated \subseteq evaluated' /\ evaluated # evaluated'
    OBVIOUS
  <2>1. Round
    BY DEF Next, Supply, Coordinator, Launch, Locate, DiscoverMigration, Begin, LeaveLoop,
       StageRaises, Withhold, Finalize, ReportAfterException, Crash, Goto, SealStage
  <2>2. NextStop = "NOT_STARTED" /\ TypeOK
    BY <2>1 DEF Round, SupplyInv
  <2>3. PICK S \in BoundedRefreshRows(RoundSize) : \E f \in Findings(S) : Settle(S, f)
    BY <2>1 DEF Round
  <2>4. evaluated' = evaluated \cup S
    BY <2>3 DEF Settle
  <2>5. S \cap evaluated = {} /\ S # {}
    BY <2>2, <2>3, PartialRound, RoundBegins, RoundSizes
  <2> QED BY <2>4, <2>5
<1> QED BY <1>1, SupplyInvariant, PTL DEF Spec, RoundsMakeProgress

(* Every DexScreener request but the second of the locator was an operation; *)
(* a discovery that confirmed anybody took three of its own, which is what a *)
(* round overshoots by.                                                      *)
BudgetInv ==
  /\ pc \in {"idle", "locate"} => observed = {}
  /\ pc = "discover" => ops = 1 /\ Cardinality(OfDex(observed)) <= 2
  /\ pc \in {"begin", "walk"} =>
       /\ Cardinality(OfDex(observed)) <= ops
       /\ latest # {} => Cardinality(OfDex(observed)) + 2 <= ops
  /\ BudgetFitsTheLedger

(* The DexScreener part of a ledger is finite.                               *)
LEMMA OfDexFinite ==
  ASSUME NEW L \in SUBSET Transport
  PROVE  IsFiniteSet(OfDex(L)) /\ Cardinality(OfDex(L)) \in Nat
<1> DEFINE g == [a \in Mint \cup {"profiles", "pairs"} |-> Dex(a)]
           D == {Dex(a) : a \in Mint \cup {"profiles", "pairs"}}
<1>1. IsFiniteSet(Mint \cup {"profiles", "pairs"})
  <2>1. IsFiniteSet(Mint \cup {"profiles"})
    BY SupplyAssumption, FS_AddElement
  <2>2. IsFiniteSet((Mint \cup {"profiles"}) \cup {"pairs"})
    BY <2>1, FS_AddElement
  <2>3. (Mint \cup {"profiles"}) \cup {"pairs"} = Mint \cup {"profiles", "pairs"}
    OBVIOUS
  <2> QED BY <2>2, <2>3
<1>2. g \in Surjection(Mint \cup {"profiles", "pairs"}, D)
  BY DEF Surjection
<1>3. IsFiniteSet(D)
  <2> HIDE DEF g, D
  <2> QED BY <1>1, <1>2, FS_Surjection
<1>4. OfDex(L) \in SUBSET D
  <2>1. Direct("migration").group # "DEXSCREENER_DISCOVERY"
    BY DEF Direct
  <2> QED BY <2>1 DEF OfDex, Transport
<1> HIDE DEF D
<1> QED BY <1>3, <1>4, FS_Subset, FS_CardinalityType

(* The exact pairs of some mints add at most as many requests as mints.      *)
LEMMA LedgerGrowth ==
  ASSUME NEW L \in SUBSET Transport, NEW M \in SUBSET Mint
  PROVE  /\ Cardinality(M) \in Nat
         /\ Cardinality(OfDex(L \cup {Dex(m) : m \in M})) <= Cardinality(OfDex(L)) + Cardinality(M)
<1> DEFINE T == {Dex(m) : m \in M}
           g == [m \in M |-> Dex(m)]
<1>1. IsFiniteSet(M) /\ Cardinality(M) \in Nat
  BY SupplyAssumption, FS_Subset, FS_CardinalityType
<1>2. g \in Surjection(M, T)
  BY DEF Surjection
<1>3. OfDex(L \cup T) = OfDex(L) \cup T
  BY DEF OfDex, Dex
<1> HIDE DEF g, T
<1>4. IsFiniteSet(T) /\ Cardinality(T) <= Cardinality(M)
  BY <1>1, <1>2, FS_Surjection
<1>5. IsFiniteSet(OfDex(L)) /\ Cardinality(OfDex(L)) \in Nat
  BY OfDexFinite
<1>6. /\ Cardinality(OfDex(L) \cup T) =
           Cardinality(OfDex(L)) + Cardinality(T) - Cardinality(OfDex(L) \cap T)
      /\ Cardinality(OfDex(L) \cap T) \in Nat /\ Cardinality(T) \in Nat
  <2> DEFINE K == OfDex(L)
  <2>1. IsFiniteSet(K) /\ IsFiniteSet(T)
    BY <1>4, <1>5
  <2> HIDE DEF K
  <2>2. Cardinality(K \cup T) = Cardinality(K) + Cardinality(T) - Cardinality(K \cap T)
    BY <2>1, FS_Union
  <2>3. IsFiniteSet(K \cap T)
    BY <2>1, FS_Intersection
  <2>4. Cardinality(K \cap T) \in Nat /\ Cardinality(T) \in Nat
    BY <2>1, <2>3, FS_CardinalityType
  <2> QED BY <2>2, <2>4 DEF K
<1>7. Cardinality(OfDex(L \cup T)) <= Cardinality(OfDex(L)) + Cardinality(M)
  <2> DEFINE K == OfDex(L)
  <2>1. \A k, t, m, c, u \in Nat : u = k + t - c /\ t <= m => u <= k + m
    OBVIOUS
  <2>2. Cardinality(K \cup T) \in Nat
    <3> HIDE DEF K
    <3>1. IsFiniteSet(K) /\ IsFiniteSet(T)
      BY <1>4, <1>5 DEF K
    <3> QED BY <3>1, FS_Union, FS_CardinalityType
  <2>3. Cardinality(K \cup T) <= Cardinality(K) + Cardinality(M)
    <3> HIDE DEF K
    <3>1. /\ Cardinality(K \cup T) = Cardinality(K) + Cardinality(T) - Cardinality(K \cap T)
          /\ Cardinality(K) \in Nat /\ Cardinality(T) \in Nat /\ Cardinality(K \cap T) \in Nat
          /\ Cardinality(M) \in Nat /\ Cardinality(T) <= Cardinality(M)
      BY <1>1, <1>4, <1>5, <1>6 DEF K
    <3> QED BY <2>1, <2>2, <3>1
  <2> QED BY <1>3, <2>3
<1> QED BY <1>1, <1>7 DEF T

(* There is room for what a round, whole or partial, measures.               *)
LEMMA RoundFits ==
  ASSUME SupplyInv, BudgetInv, pc = "walk", NextStop = "NOT_STARTED",
         NEW S \in BoundedRefreshRows(RoundSize), NEW M \in SUBSET Called(S)
  PROVE  /\ Cardinality(Called(S)) \in Nat
         /\ Cardinality(OfDex(observed \cup {Dex(m) : m \in M})) <=
              Cardinality(OfDex(observed)) + Cardinality(Called(S))
         /\ Cardinality(OfDex(observed \cup {Dex(m) : m \in M})) \in Nat
         /\ Cardinality(OfDex(observed \cup {Dex(m) : m \in M})) <= Ceiling
<1> DEFINE L == observed \cup {Dex(m) : m \in M}
<1>1. /\ TypeOK /\ ops \in Nat /\ observed \in SUBSET Transport /\ registry \subseteq Mint
      /\ Cardinality(OfDex(observed)) <= ops
      /\ latest # {} => Cardinality(OfDex(observed)) + 2 <= ops
  BY DEF SupplyInv, TypeOK, BudgetInv
<1>2. /\ RoundSize \in Nat \ {0} /\ ops < Budget /\ RoundSize <= Budget - ops
      /\ Unexplored # {}
  BY <1>1, RoundBegins
<1>3. /\ IsFiniteSet(S) /\ Cardinality(S) \in Nat
      /\ Cardinality(S) <= RoundSize \/ (latest # {} /\ Cardinality(S) <= 2)
  BY <1>1, <1>2, RoundSizes
<1>4. IsFiniteSet(Called(S)) /\ Cardinality(Called(S)) <= Cardinality(S)
  BY <1>3, FS_Subset DEF Called
<1>5. Cardinality(Called(S)) \in Nat
  BY <1>4, FS_CardinalityType
<1>6. Cardinality(M) \in Nat /\ Cardinality(M) <= Cardinality(Called(S))
  BY <1>4, FS_Subset, FS_CardinalityType
<1>7. S \subseteq registry
  BY <1>1, PartialRound
<1>8. M \in SUBSET Mint
  BY <1>1, <1>7 DEF Called
<1>9. Cardinality(OfDex(L)) <= Cardinality(OfDex(observed)) + Cardinality(M)
  BY <1>1, <1>8, LedgerGrowth
<1>10. L \in SUBSET Transport
  BY <1>1, <1>8, Targets
<1>11. Cardinality(OfDex(L)) \in Nat /\ Cardinality(OfDex(observed)) \in Nat
  <2> HIDE DEF L
  <2> QED BY <1>1, <1>10, OfDexFinite
<1> HIDE DEF L
<1>12. Cardinality(OfDex(L)) <= Ceiling
  BY <1>1, <1>2, <1>3, <1>4, <1>5, <1>6, <1>9, <1>11, SupplyAssumption, LedgerAssumption,
     CeilingAssumption
<1> QED BY <1>5, <1>6, <1>9, <1>11, <1>12 DEF L

(* A stage for which there is room is not blamed on the ceiling.             *)
LEMMA RoomIsNoFault ==
  ASSUME TypeOK, owner.blocked = "NONE", owner.ledger = observed, NEW id, NEW T, NEW next,
         SealStage(id, T, next), Cardinality(OfDex(observed \cup T)) \in Nat,
         Cardinality(OfDex(observed \cup T)) <= Ceiling
  PROVE  observed' = observed \cup T /\ owner'.blocked # "STAGE_TRANSPORT_CEILING"
<1>1. IngestFault(owner, id, T) \in {"DUPLICATE_STAGE_ID", "DUPLICATE_TRANSPORT", "NONE"}
  BY CeilingAssumption DEF IngestFault
<1>2. owner' \in {owner, [owner EXCEPT !.ledger = @ \cup T, !.stages = @ \cup {id}],
                  [owner EXCEPT !.blocked = IngestFault(owner, id, T)]}
  BY DEF SealStage, Ingest, Block
<1>3. \A e \in {"DUPLICATE_STAGE_ID", "DUPLICATE_TRANSPORT", "NONE"} :
        [owner EXCEPT !.blocked = e].blocked # "STAGE_TRANSPORT_CEILING"
  BY DEF TypeOK
<1>4. [owner EXCEPT !.ledger = @ \cup T, !.stages = @ \cup {id}].blocked = "NONE"
  BY DEF TypeOK
<1> HIDE DEF IngestFault
<1> QED BY <1>1, <1>2, <1>3, <1>4 DEF SealStage

(* The two requests of the locator are the only ones it makes.               *)
LEMMA FixedDex ==
  /\ \A L : L \subseteq Fixed => IsFiniteSet(OfDex(L)) /\ Cardinality(OfDex(L)) \in 0 .. 2
<1>1. /\ IsFiniteSet({Dex("profiles"), Dex("pairs")})
      /\ Cardinality({Dex("profiles"), Dex("pairs")}) <= 2
  <2>1. IsFiniteSet({Dex("profiles")}) /\ Cardinality({Dex("profiles")}) = 1
    BY FS_Singleton
  <2>2. /\ IsFiniteSet({Dex("profiles")} \cup {Dex("pairs")})
        /\ Cardinality({Dex("profiles")} \cup {Dex("pairs")}) <= 2
    BY <2>1, FS_AddElement
  <2>3. {Dex("profiles")} \cup {Dex("pairs")} = {Dex("profiles"), Dex("pairs")}
    OBVIOUS
  <2> QED BY <2>2, <2>3
<1>2. ASSUME NEW L, L \subseteq Fixed
      PROVE  IsFiniteSet(OfDex(L)) /\ Cardinality(OfDex(L)) \in 0 .. 2
  <2>1. Direct("migration").group # "DEXSCREENER_DISCOVERY"
    BY DEF Direct
  <2>2. OfDex(L) \in SUBSET {Dex("profiles"), Dex("pairs")}
    BY <1>2, <2>1 DEF OfDex, Fixed
  <2>3. /\ IsFiniteSet(OfDex(L))
        /\ Cardinality(OfDex(L)) <= Cardinality({Dex("profiles"), Dex("pairs")})
    BY <1>1, <2>2, FS_Subset
  <2>4. Cardinality(OfDex(L)) \in Nat /\ Cardinality({Dex("profiles"), Dex("pairs")}) \in Nat
    BY <1>1, <2>3, FS_CardinalityType
  <2> QED BY <1>1, <2>3, <2>4
<1> QED BY <1>2

(* Every step keeps the room.                                                *)
LEMMA NextBudget == SupplyInv /\ BudgetInv /\ [Next]_vars => BudgetInv'
<1> SUFFICES ASSUME SupplyInv, BudgetInv, [Next]_vars PROVE BudgetInv'
  OBVIOUS
<1>1. CASE Launch
  BY <1>1 DEF Launch, Goto, BudgetInv, EmptyOwner, BudgetFitsTheLedger
<1>2. CASE Locate
  <2>1. PICK T \in {{}, {Dex("profiles")}, {Dex("profiles"), Dex("pairs")}} :
          SealStage(<<"LOCATOR", 1>>, T, "discover")
    BY <1>2 DEF Locate
  <2>2. /\ TypeOK /\ observed = {} /\ owner.blocked = "NONE" /\ owner.ledger = observed
        /\ ops' = 1 /\ pc' \in {"discover", "raised"}
    BY <1>2, <2>1 DEF Locate, SupplyInv, BudgetInv, LedgerInv, Running, Early, SealStage, Goto
  <2>3. observed \cup T \subseteq Fixed
    BY <2>2 DEF Fixed
  <2>4. Cardinality(OfDex(observed \cup T)) \in 0 .. 2
    BY <2>3, FixedDex
  <2>5. /\ Cardinality(OfDex(observed \cup T)) \in Nat
        /\ Cardinality(OfDex(observed \cup T)) <= 2
        /\ Cardinality(OfDex(observed \cup T)) <= Ceiling
    BY <2>4, LedgerAssumption, CeilingAssumption
  <2>6. observed' = observed \cup T /\ owner'.blocked # "STAGE_TRANSPORT_CEILING"
    BY <2>1, <2>2, <2>5, RoomIsNoFault
  <2> QED BY <2>2, <2>5, <2>6 DEF BudgetInv, BudgetFitsTheLedger
<1>3. CASE DiscoverMigration
  <2>1. PICK confirmed \in SUBSET Mint, requests \in 1 .. MaxDirect, T \in {{}, {Direct("migration")}} :
          /\ requests >= 1 + 2 * Cardinality(confirmed)
          /\ SealStage(<<"DIRECT_MIGRATION", 1>>, T, "begin")
          /\ latest' = confirmed
          /\ ops' = ops + requests
    BY <1>3 DEF DiscoverMigration
  <2>2. /\ TypeOK /\ observed \subseteq Fixed /\ owner.blocked = "NONE" /\ owner.ledger = observed
        /\ ops = 1 /\ pc' \in {"begin", "raised"}
    BY <1>3, <2>1 DEF DiscoverMigration, SupplyInv, BudgetInv, LedgerInv, MeasuredInv, Running,
       Early, SealStage, Goto
  <2>3. observed \cup T \subseteq Fixed
    BY <2>2 DEF Fixed
  <2>4. Cardinality(OfDex(observed \cup T)) \in 0 .. 2
    BY <2>3, FixedDex
  <2>5. Cardinality(OfDex(observed \cup T)) <= Ceiling
    BY <2>4, LedgerAssumption, CeilingAssumption
  <2>6. observed' = observed \cup T /\ owner'.blocked # "STAGE_TRANSPORT_CEILING"
    BY <2>1, <2>2, <2>4, <2>5, RoomIsNoFault
  <2>7. IsFiniteSet(confirmed) /\ Cardinality(confirmed) \in Nat
    BY SupplyAssumption, FS_Subset, FS_CardinalityType
  <2>8. confirmed # {} => Cardinality(confirmed) # 0
    BY <2>7, FS_EmptySet
  <2>9. ops' >= 2 /\ (latest' # {} => ops' >= 4)
    BY <2>1, <2>2, <2>7, <2>8, SupplyAssumption
  <2>10. ops' \in Nat
    BY <2>1, <2>2, SupplyAssumption
  <2> QED BY <2>2, <2>4, <2>6, <2>9, <2>10 DEF BudgetInv, BudgetFitsTheLedger
<1>4. CASE Begin
  BY <1>4 DEF Begin, Goto, BudgetInv, BudgetFitsTheLedger
<1>5. CASE Round
  <2>1. PICK S \in BoundedRefreshRows(RoundSize) : \E f \in Findings(S) : \E M \in Measured(f) :
          SealRound(f, M) /\ (pc' = "raised" \/ Settle(S, f))
    BY <1>5 DEF Round
  <2>2. PICK f \in Findings(S) : \E M \in Measured(f) :
          SealRound(f, M) /\ (pc' = "raised" \/ Settle(S, f))
    BY <2>1
  <2>3. PICK M \in Measured(f) : SealRound(f, M) /\ (pc' = "raised" \/ Settle(S, f))
    BY <2>2
  <2>4. /\ TypeOK /\ pc = "walk" /\ NextStop = "NOT_STARTED" /\ latest' = latest
        /\ owner.blocked = "NONE" /\ owner.ledger = observed /\ ops \in Nat
        /\ observed \in SUBSET Transport
    BY <1>5 DEF Round, SupplyInv, TypeOK, LedgerInv, Running
  <2>5. M \in SUBSET Called(S) /\ DOMAIN f = S
    BY <2>4, RoundFacts
  <2>6. /\ Cardinality(Called(S)) \in Nat
        /\ Cardinality(OfDex(observed \cup {Dex(m) : m \in M})) <=
             Cardinality(OfDex(observed)) + Cardinality(Called(S))
        /\ Cardinality(OfDex(observed \cup {Dex(m) : m \in M})) \in Nat
        /\ Cardinality(OfDex(observed \cup {Dex(m) : m \in M})) <= Ceiling
    BY <2>4, <2>5, RoundFits
  <2>7. /\ observed' = observed \cup {Dex(m) : m \in M} /\ pc' \in {"walk", "raised"}
        /\ owner'.blocked # "STAGE_TRANSPORT_CEILING"
    <3>1. CASE Called(S) = {}
      <4>1. UNCHANGED <<observed, owner>> /\ pc' = "walk" /\ M = {}
        BY <2>3, <2>5, <3>1 DEF SealRound, Goto
      <4> QED BY <2>4, <4>1
    <3>2. CASE Called(S) # {}
      <4>1. SealStage(<<"EXACT_LIQUIDITY", rounds + 1>>, {Dex(m) : m \in M}, "walk")
        BY <2>3, <2>5, <3>2 DEF SealRound
      <4>2. pc' \in {"walk", "raised"}
        BY <4>1 DEF SealStage, Goto
      <4> QED BY <2>4, <2>6, <4>1, <4>2, RoomIsNoFault
    <3> QED BY <3>1, <3>2
  <2>8. pc' = "walk" => ops' = ops + Cardinality(Called(S))
    BY <2>3 DEF Settle
  <2>9. Cardinality(OfDex(observed)) \in Nat
    BY <2>4, OfDexFinite
  <2> QED BY <2>4, <2>6, <2>7, <2>8, <2>9 DEF BudgetInv, BudgetFitsTheLedger
<1>6. CASE LeaveLoop
  BY <1>6 DEF LeaveLoop, Goto, BudgetInv, BudgetFitsTheLedger
<1>7. CASE StageRaises
  <2>1. pc' = "raised"
    BY <1>7 DEF StageRaises, Goto, SealStage
  <2>2. /\ TypeOK /\ owner.blocked = "NONE" /\ owner.ledger = observed
    BY <1>7 DEF StageRaises, SupplyInv, LedgerInv, Running, Early
  <2>3. owner'.blocked # "STAGE_TRANSPORT_CEILING"
    <3>1. CASE UNCHANGED <<cooling, observed, owner>>
      BY <2>2, <3>1
    <3>2. CASE /\ pc = "discover"
               /\ SealStage(<<"DIRECT_MIGRATION", 1>>, {Direct("migration")}, "raised")
      <4>1. observed \cup {Direct("migration")} \subseteq Fixed
        BY <3>2 DEF SupplyInv, MeasuredInv, Fixed
      <4>2. Cardinality(OfDex(observed \cup {Direct("migration")})) \in 0 .. 2
        BY <4>1, FixedDex
      <4>3. Cardinality(OfDex(observed \cup {Direct("migration")})) <= Ceiling
        BY <4>2, LedgerAssumption, CeilingAssumption
      <4> QED BY <2>2, <3>2, <4>2, <4>3, RoomIsNoFault
    <3>3. ASSUME pc = "walk", NextStop = "NOT_STARTED", NEW S \in BoundedRefreshRows(RoundSize),
                 NEW M \in SUBSET Called(S),
                 SealStage(<<"EXACT_LIQUIDITY", rounds + 1>>, {Dex(m) : m \in M}, "raised")
          PROVE  owner'.blocked # "STAGE_TRANSPORT_CEILING"
      <4>1. /\ Cardinality(OfDex(observed \cup {Dex(m) : m \in M})) \in Nat
            /\ Cardinality(OfDex(observed \cup {Dex(m) : m \in M})) <= Ceiling
        BY <3>3, RoundFits
      <4> QED BY <2>2, <3>3, <4>1, RoomIsNoFault
    <3> QED BY <1>7, <3>1, <3>2, <3>3 DEF StageRaises
  <2> QED BY <2>1, <2>3 DEF BudgetInv, BudgetFitsTheLedger
<1>8. CASE Withhold \/ Finalize \/ ReportAfterException
  <2>1. pc' = "done"
    BY <1>8 DEF Withhold, Finalize, ReportAfterException, Goto
  <2>2. \A reason \in {"STAGE_FAILED", "MISMATCH"} :
          Block(owner, reason).blocked # "STAGE_TRANSPORT_CEILING"
    BY DEF SupplyInv, TypeOK, BudgetInv, BudgetFitsTheLedger, Block
  <2>3. owner' \in {owner, Block(owner, "STAGE_FAILED"), Block(owner, "MISMATCH")}
    BY <1>8 DEF Withhold, Finalize, ReportAfterException
  <2> QED BY <2>1, <2>2, <2>3 DEF BudgetInv, BudgetFitsTheLedger
<1>9. CASE Crash
  BY <1>9 DEF Crash, Goto, BudgetInv, BudgetFitsTheLedger
<1>10. CASE UNCHANGED vars
  BY <1>10 DEF vars, durable, walk, BudgetInv, BudgetFitsTheLedger
<1> QED BY <1>1, <1>2, <1>3, <1>4, <1>5, <1>6, <1>7, <1>8, <1>9, <1>10 DEF Next, Supply, Coordinator

(* The operation budget stops the loop before the DexScreener ledger is      *)
(* full, although the locator counts once for two requests and a round may   *)
(* overshoot by one.                                                         *)
THEOREM BudgetFits == Spec => []BudgetFitsTheLedger
<1>1. Init => BudgetInv
  BY DEF Init, BudgetInv, EmptyOwner, BudgetFitsTheLedger
<1>2. BudgetInv => BudgetFitsTheLedger
  BY DEF BudgetInv
<1> QED BY <1>1, <1>2, NextBudget, SupplyInvariant, PTL DEF Spec

-----------------------------------------------------------------------------
(* The limit of the rounds *)

(* As long as a whole batch is left, every round but the first was a whole   *)
(* batch, or it was the last one.                                            *)
LimitInv ==
  /\ pc \in Early => rounds = 0
  /\ pc = "walk" /\ rounds > 0 /\ Unexplored # {} /\ Remaining >= BatchSize =>
       (rounds - 1) * BatchSize <= Cardinality(evaluated)

(* A quotient that is rounded down is less than one too small.               *)
LEMMA QuotientBound ==
  ASSUME NEW n \in Nat, NEW b \in Nat \ {0}
  PROVE  n \div b \in Nat /\ n < (n \div b + 1) * b
<1>1. n \div b \in Nat /\ n - b * (n \div b) \in 0 .. b - 1
  OBVIOUS
<1> DEFINE q == n \div b
<1> HIDE DEF q
<1>2. q \in Nat /\ n - b * q \in 0 .. b - 1
  BY <1>1 DEF q
<1>3. (q + 1) * b = b * q + b /\ b * q \in Nat
  BY <1>2
<1> QED BY <1>2, <1>3 DEF q

(* More multiples are no less.                                               *)
LEMMA MultiplesGrow ==
  ASSUME NEW j \in Nat, NEW k \in Nat, NEW b \in Nat, j <= k
  PROVE  j * b <= k * b /\ j * b \in Nat /\ k * b \in Nat
<1>1. PICK d \in Nat : k = j + d
  <2>1. k - j \in Nat /\ k = j + (k - j)
    OBVIOUS
  <2> QED BY <2>1
<1>2. k * b = j * b + d * b /\ d * b \in Nat /\ j * b \in Nat
  BY <1>1
<1> QED BY <1>2

(* A round after the first that leaves somebody out is as large as it may.   *)
LEMMA WholeRound ==
  ASSUME TypeOK, rounds # 0, NEW n \in Nat \ {0}, NEW S \in BoundedRefreshRows(n),
         S # Unexplored
  PROVE  /\ IsFiniteSet(S) /\ Cardinality(S) \in Nat /\ n <= Cardinality(S)
<1> DEFINE rest == LesserOf(n, Cardinality(RoundPool))
<1>1. RoundPool = Unexplored /\ RoundPool \in SUBSET Mint
  BY DEF RoundPool, Unexplored, TypeOK
<1>2. S \in SUBSET RoundPool /\ (Cardinality(S) = rest \/ \E first : Cardinality(S) = GreaterOf(first, rest))
  BY DEF BoundedRefreshRows
<1>3. IsFiniteSet(RoundPool) /\ Cardinality(RoundPool) \in Nat
  BY <1>1, SupplyAssumption, FS_Subset, FS_CardinalityType
<1>4. /\ IsFiniteSet(S) /\ Cardinality(S) \in Nat
      /\ Cardinality(S) <= Cardinality(RoundPool) /\ Cardinality(S) # Cardinality(RoundPool)
  BY <1>1, <1>2, <1>3, FS_Subset, FS_CardinalityType
<1>5. Cardinality(S) = rest \/ ~(rest > Cardinality(S))
  BY <1>2, <1>3, <1>4 DEF GreaterOf, LesserOf
<1> QED BY <1>3, <1>4, <1>5 DEF LesserOf

(* The rounds that stay in the loop keep the count.                          *)
LEMMA RoundKeepsLimit ==
  ASSUME SupplyInv, LimitInv, Round, pc' = "walk", rounds' > 0, Unexplored' # {},
         Remaining' >= BatchSize
  PROVE  (rounds' - 1) * BatchSize <= Cardinality(evaluated')
<1>1. /\ TypeOK /\ pc = "walk" /\ NextStop = "NOT_STARTED" /\ registry' = registry
  BY DEF SupplyInv, Round
<1>2. PICK S \in BoundedRefreshRows(RoundSize) : \E f \in Findings(S) : Settle(S, f)
  BY DEF Round
<1>3. PICK f \in Findings(S) : Settle(S, f)
  BY <1>2
<1>4. /\ evaluated' = evaluated \cup S /\ rounds' = rounds + 1
      /\ ops' = ops + Cardinality(Called(S))
  BY <1>3 DEF Settle
<1>5. /\ rounds \in Nat /\ ops \in Nat /\ registry \in SUBSET Mint /\ evaluated \in SUBSET registry
      /\ BatchSize \in Nat \ {0} /\ Budget \in Nat
  BY <1>1, SupplyAssumption DEF TypeOK
<1>6. S \in SUBSET registry /\ S \cap evaluated = {} /\ RoundSize \in Nat \ {0}
  BY <1>1, PartialRound, RoundBegins
<1>7. /\ IsFiniteSet(S) /\ IsFiniteSet(evaluated) /\ IsFiniteSet(Called(S))
      /\ Cardinality(Called(S)) \in Nat /\ Cardinality(evaluated) \in Nat
      /\ Cardinality(S) \in Nat
  <2>1. IsFiniteSet(registry)
    BY <1>5, SupplyAssumption, FS_Subset
  <2>2. IsFiniteSet(S) /\ IsFiniteSet(evaluated)
    BY <1>5, <1>6, <2>1, FS_Subset
  <2>3. Called(S) \in SUBSET S
    BY DEF Called
  <2> QED BY <2>2, <2>3, FS_Subset, FS_CardinalityType
<1>8. Remaining >= BatchSize /\ RoundSize = BatchSize
  BY <1>4, <1>5, <1>7 DEF Remaining, RoundSize, LesserOf, GreaterOf
<1>9. Unexplored # {} /\ S # Unexplored
  BY <1>1, <1>4, <1>6 DEF Unexplored
<1>10. CASE rounds = 0
  <2>1. (rounds' - 1) * BatchSize = 0
    BY <1>4, <1>5, <1>10
  <2>2. Cardinality(evaluated') \in Nat
    BY <1>4, <1>7, FS_Union, FS_CardinalityType
  <2> QED BY <2>1, <2>2
<1>11. CASE rounds # 0
  <2>1. BatchSize <= Cardinality(S)
    BY <1>1, <1>5, <1>8, <1>9, <1>11, WholeRound
  <2>2. (rounds - 1) * BatchSize <= Cardinality(evaluated)
    BY <1>1, <1>5, <1>8, <1>9, <1>11 DEF LimitInv
  <2>3. Cardinality(evaluated \cup S) = Cardinality(evaluated) + Cardinality(S)
    <3>1. evaluated \cap S = {} /\ Cardinality({}) = 0
      BY <1>6, FS_EmptySet
    <3>2. Cardinality(evaluated \cup S) =
            Cardinality(evaluated) + Cardinality(S) - Cardinality(evaluated \cap S)
      BY <1>7, FS_Union
    <3>3. Cardinality(evaluated \cap S) = 0
      BY ONLY <3>1
    <3> QED BY <1>7, <3>2, <3>3
  <2>4. rounds * BatchSize = (rounds - 1) * BatchSize + BatchSize /\ (rounds - 1) * BatchSize \in Int
    BY <1>5
  <2>5. rounds' - 1 = rounds
    BY <1>4, <1>5
  <2> QED BY <1>4, <1>5, <1>7, <2>1, <2>2, <2>3, <2>4, <2>5
<1> QED BY <1>10, <1>11

(* Every step keeps the count.                                               *)
LEMMA NextLimit == SupplyInv /\ LimitInv /\ [Next]_vars => LimitInv'
<1> SUFFICES ASSUME SupplyInv, LimitInv, [Next]_vars PROVE LimitInv'
  OBVIOUS
<1>1. CASE Launch \/ Begin
  BY <1>1 DEF Launch, Begin, Goto, LimitInv, Early
<1>2. CASE Locate \/ DiscoverMigration
  <2>1. rounds' = rounds /\ pc \in Early /\ pc' # "walk"
    BY <1>2 DEF Locate, DiscoverMigration, SealStage, Goto, Early
  <2> QED BY <2>1 DEF LimitInv, Early
<1>3. CASE Round
  <2>1. pc' \in {"walk", "raised"}
    BY <1>3 DEF Round, SealRound, SealStage, Goto
  <2> QED BY <1>3, <2>1, RoundKeepsLimit DEF LimitInv, Early
<1>4. CASE LeaveLoop \/ Coordinator \/ Crash
  <2>1. pc' \in {"supplied", "raised", "done", "dead"}
    BY <1>4 DEF LeaveLoop, Coordinator, StageRaises, Withhold, Finalize, ReportAfterException,
       Crash, SealStage, Goto
  <2> QED BY <2>1 DEF LimitInv, Early
<1>5. CASE UNCHANGED vars
  BY <1>5 DEF vars, durable, walk, LimitInv, Unexplored, Remaining
<1> QED BY <1>1, <1>2, <1>3, <1>4, <1>5 DEF Next, Supply

(* What the rounds have evaluated is less than the registry, so less than    *)
(* one batch more than the limit counts without its three rounds to spare.   *)
LEMMA LimitIsLarge == SupplyInv /\ LimitInv => LimitIsNotPremature
<1> SUFFICES ASSUME SupplyInv, LimitInv, pc = "walk", Unexplored # {}, Remaining >= BatchSize
             PROVE  rounds < MaxRounds
  BY DEF LimitIsNotPremature
<1> DEFINE q == Cardinality(registry) \div BatchSize
<1>1. /\ rounds \in Nat /\ registry \in SUBSET Mint /\ evaluated \in SUBSET registry
      /\ BatchSize \in Nat \ {0}
  BY SupplyAssumption DEF SupplyInv, TypeOK
<1>2. /\ IsFiniteSet(registry) /\ Cardinality(registry) \in Nat
      /\ Cardinality(evaluated) \in Nat /\ Cardinality(evaluated) <= Cardinality(registry)
  BY <1>1, SupplyAssumption, FS_Subset, FS_CardinalityType
<1>3. q \in Nat /\ Cardinality(registry) < (q + 1) * BatchSize
  BY <1>1, <1>2, QuotientBound
<1>4. MaxRounds = q + 3
  BY <1>3 DEF MaxRounds, GreaterOf
<1> HIDE DEF q
<1>5. ASSUME rounds >= q + 3 PROVE FALSE
  <2>1. (rounds - 1) * BatchSize <= Cardinality(evaluated)
    BY <1>1, <1>3, <1>5 DEF LimitInv
  <2>2. q + 1 \in Nat /\ rounds - 1 \in Nat /\ q + 1 <= rounds - 1
    BY <1>1, <1>3, <1>5
  <2>3. /\ (q + 1) * BatchSize <= (rounds - 1) * BatchSize
        /\ (q + 1) * BatchSize \in Nat /\ (rounds - 1) * BatchSize \in Nat
    BY <1>1, <2>2, MultiplesGrow
  <2> QED BY <1>2, <1>3, <2>1, <2>3
<1> QED BY <1>1, <1>3, <1>4, <1>5

(* The limit of the rounds never ends a loop that could still go on with a   *)
(* whole batch, for any batch, budget and registry.                          *)
THEOREM LimitIsNeverPremature == Spec => []LimitIsNotPremature
<1>1. Init => LimitInv
  BY DEF Init, LimitInv, Early
<1> QED BY <1>1, NextLimit, LimitIsLarge, SupplyInvariant, PTL DEF Spec
=============================================================================
