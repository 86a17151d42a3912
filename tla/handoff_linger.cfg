SPECIFICATION Spec
CONSTANTS
  Cooldown = 2
  Known = {}
  Token = {t1, t2}
  Secondary = {"gecko"}
  MaxCampaigns = 1
  MaxTime = 1
INVARIANTS NoLingeringFirst15m
CHECK_DEADLOCK FALSE
