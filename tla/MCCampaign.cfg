CONSTANTS
  Stream = {"ground_truth", "events"}
  Csv = {"ground_truth"}
  RunCount = 2
  MaxRecords = 1
  MaxLosses = 1
SPECIFICATION FairSpec
CHECK_DEADLOCK FALSE
INVARIANTS
  VerdictSound
  AcceptanceSound
  SafeBeforeSealed
PROPERTIES
  CampaignReports
