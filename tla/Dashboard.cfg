SPECIFICATION DashboardSpec
CONSTANTS
  Commands <- MCCommands
  Pumps = {1}
  Parties = {"server"}
  None = None
  Fetches = {f1, f2}
PROPERTIES
  BoardSettles
  RetainedSettles
