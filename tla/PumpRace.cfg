SPECIFICATION Spec
CONSTANTS
  Absent = Absent
  Controls <- RaceControls
  Feedbacks <- RaceFeedbacks
  Posts <- MCPosts
  LoadRank <- MCLoadRank
  MaxHandled <- RaceBudget
  MaxHistory = 2
  MaxNow = 2
  MaxFailures = 0
  MaxRestarts = 0
INVARIANTS UpdateInv DiffIsPending OwnWritesInRow RingHoldsCommands CommandsReachSnapshots
PROPERTIES CommandChangeIsRecorded CommandsAreLogged
