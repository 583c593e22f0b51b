SPECIFICATION TurnsSpec
CONSTANTS
  Absent = Absent
  Controls <- TurnsControls
  Feedbacks <- TurnsFeedbacks
  Posts <- MCPosts
  LoadRank <- MCLoadRank
  MaxHandled <- TurnsBudget
  MaxHistory = 2
  MaxNow = 2
  MaxFailures = 1
  MaxRestarts = 1
INVARIANTS TimelineIsCurrent DetailRowsJoinSnapshots SnapshotsInTimeOrder RingMatchesLog
PROPERTIES ChangeIsRecorded FeedbackKeepsOmitted ChangesReachTimeline
