SPECIFICATION Spec
CONSTANTS
  Absent = Absent
  Requests <- MCRequests
  Lengths = {2, 4}
  MaxLimit = 3
  DefaultLimit = 2
  BufferSize = 9
  Slack = 4
  OutputSize = 11
  Wrapper = 2
  MaxRows = 3
  MaxNow = 2
  MaxFailures = 1
INVARIANTS BufferHolds LimitHolds AnswerHasNoHoles
