CONSTANTS
  Name <- MCName
  Cuts <- MCCuts
  NsOf <- MCNsOf
  Host <- MCHost
  Serves <- MCServes
  Data <- MCData
  RootHints = {"ar"}
  Faulty <- E
  FaultySays <- MCFaultySays
  Asked <- MCAsked
  QMin = TRUE
  MaxSteps = 4
  MaxCname = 3
  MaxQueries = 5
  MaxNsDepth = 2
  ServersPerStep = 2
  MaxZones = 2
  MaxAsks = 2
  TrustName <- MCTrustName
  Hosts <- MCHosts
  Answers <- MCAnswers
  Start <- MCStart
  Stranger <- TO
  AnchorLines <- MCAnchorLines
  MaxKey = 2
  Life = 1
  Ttls = {3}
  MaxTtl = 3
  MaxChainQueries = 4
  MaxTime = 2
  MaxChanges = 1
  None = None
SPECIFICATION MCSpec
INVARIANTS InBailiwick DenialsAreTrue
PROPERTIES TrustIsEarned EveryQuestionEnds
CHECK_DEADLOCK FALSE
