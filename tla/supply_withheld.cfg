SPECIFICATION Spec
CONSTANTS
  Mint = {m1, m2}
  Required = 2
  BatchSize = 2
  Budget = 5
  Ceiling = 5
  SourceFailure = {"SOURCE_UNAVAILABLE", "MALFORMED_OR_PARTIAL"}
  MaxDirect = 3
  MaxCampaigns = 2
INVARIANTS WithheldIsNotSelected
SYMMETRY Symmetry
CHECK_DEADLOCK FALSE
