SPECIFICATION InstancesSpec
CONSTANTS
  Players = {pat, sue}
  Kinds = {"idBound", "flex", "encounter"}
  Encounters = {boss}
  Absent = Absent
  Deleted = Deleted
  MaxInstanceId = 2
  MaxPeriod = 1
  MaxInterventions <- MCInterventions
  MaxUnwritten = 1
INVARIANTS
  InstanceIdAsserted
CHECK_DEADLOCK FALSE
