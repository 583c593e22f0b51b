SPECIFICATION FairSpec
CONSTANTS
  Absent = Absent
  Heartbeats <- MCHeartbeats
  Stored <- MCStored
  Timeout = 2
  Requests = {r1}
  MaxNow = 4
  MaxHandled = 1
  MaxFailures = 1
  MaxRestarts = 1
PROPERTIES DotShowsSilence
