SPECIFICATION FairSpec
CONSTANTS
  Absent = Absent
  Heartbeats <- MCHeartbeats
  Stored <- MCStored
  Timeout = 2
  Requests = {r1, r2}
  MaxNow = 4
  MaxHandled = 2
  MaxFailures = 1
  MaxRestarts = 1
INVARIANTS OnlineMeansHeard HistoryNamesFirmware
PROPERTIES  DashboardSettles
