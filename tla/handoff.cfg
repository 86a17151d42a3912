SPECIFICATION Spec
CONSTANTS
  Cooldown = 2
  Known = {t1}
  Token = {t1, t2, t3}
  Secondary = {"gecko", "tracker", "dexscreener"}
  MaxCampaigns = 2
  MaxTime = 2
SYMMETRY Symmetry
INVARIANTS OneLiveRow ActivationAtomic WorkAndJobAgree SelectedStayEligible ClosedOwnsNothing OnlyFirst15mLingers
PROPERTIES ImplementsOwnership
CHECK_DEADLOCK FALSE
