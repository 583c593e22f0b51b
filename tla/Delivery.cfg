SPECIFICATION Spec
CONSTANTS
  Commands <- MCCommands
  Pumps = {1, 2}
  Parties = {"server", "hardware"}
  None = None
INVARIANTS
  PumpsAgree
  ErrorMeansNotSent
  SentIsLostWithLinkOnly
  AckIsComing
PROPERTIES
  OneOrder
  AcceptedIsApplied
  RequestsAnswered
CHECK_DEADLOCK FALSE
