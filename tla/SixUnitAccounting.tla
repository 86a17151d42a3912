-------------------------- MODULE SixUnitAccounting --------------------------
(***************************************************************************)
(* The owner of a campaign's source accounting                             *)
(* (sources/campaign_six_unit_accounting.py) and the ledgers its stages    *)
(* seal into it (sources/measured_transport.py).                           *)
(*                                                                         *)
(* A transport is one outbound request, named by its ceiling group and its *)
(* target; of the six units only these are told apart here.                *)
(***************************************************************************)
EXTENDS Naturals, FiniteSets

CONSTANT Ceiling  \* STAGE_CEILINGS["DEXSCREENER_DISCOVERY"]

ASSUME CeilingAssumption == Ceiling \in Nat

Dex(target)    == [group |-> "DEXSCREENER_DISCOVERY", target |-> target]
Direct(target) == [group |-> "DIRECT", target |-> target]
OfDex(T)       == {t \in T : t.group = "DEXSCREENER_DISCOVERY"}

BlockReason == {"NONE", "DUPLICATE_STAGE_ID", "DUPLICATE_TRANSPORT",
                "STAGE_TRANSPORT_CEILING", "STAGE_FAILED", "MISMATCH"}

EmptyOwner == [ledger |-> {}, stages |-> {}, blocked |-> "NONE"]

\* seal_campaign_stage_evidence refuses a started stage that measured nothing.
Sealable(T) == T # {}

\* What ingest_stage_evidence has against stage id with the transports T.
IngestFault(owner, id, T) ==
  IF id \in owner.stages THEN "DUPLICATE_STAGE_ID"
  ELSE IF T \cap owner.ledger # {} THEN "DUPLICATE_TRANSPORT"
  ELSE IF Cardinality(OfDex(owner.ledger \cup T)) > Ceiling
       THEN "STAGE_TRANSPORT_CEILING"
  ELSE "NONE"

\* block keeps the first reason.
Block(owner, reason) ==
  IF owner.blocked = "NONE" THEN [owner EXCEPT !.blocked = reason] ELSE owner

\* One stage is taken whole or not at all.
Ingest(owner, id, T) ==
  IF IngestFault(owner, id, T) = "NONE"
  THEN [owner EXCEPT !.ledger = @ \cup T, !.stages = @ \cup {id}]
  ELSE Block(owner, IngestFault(owner, id, T))

\* reconcile_owner_to_action_local, by identity and in both directions.
Reconciles(owner, observed) == owner.blocked = "NONE" /\ owner.ledger = observed
=============================================================================
