SPECIFICATION Spec
CONSTANTS
  Mint = {m1, m2, m3, m4}
  Required = 2
  BatchSize = 2
  Budget = 5
  Ceiling = 5
  SourceFailure = {"SOURCE_UNAVAILABLE", "RATE_LIMITED_OR_STALE", "MALFORMED_OR_PARTIAL"}
  MaxDirect = 3
  MaxCampaigns = 2
INVARIANTS NothingMeasuredInVain BudgetFitsTheLedger StaleNeverCounts LimitIsNotPremature CertificateHonest ReportedIsMeasured
PROPERTIES RoundsMakeProgress
SYMMETRY Symmetry
CHECK_DEADLOCK FALSE
