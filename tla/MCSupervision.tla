--------------------------- MODULE MCSupervision ---------------------------
(***************************************************************************)
(* Instances of CampaignSupervision for TLC.  A lease of three ticks is    *)
(* the 90 s lease over the 30 s heartbeat of the code.                     *)
(***************************************************************************)
EXTENDS CampaignSupervision
=============================================================================
