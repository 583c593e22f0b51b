SPECIFICATION FairSpec
CONSTANTS
  NoTimer = NoTimer
  Rows <- MCRows
  Columns = {"timestamp", "pump1_status"}
  Statuses = {1}
  Terms = {"", "stop"}
  Hits <- MCHits
  Ranges <- MCRanges
  PageSizes = {1, 2}
  FirstSize = 1
  MaxLoads = 3
  MaxFailures = 1
INVARIANTS TableShowsFilters PageInRange StatsMatchTable LastLoadIsChosen
PROPERTIES LoadingEnds
