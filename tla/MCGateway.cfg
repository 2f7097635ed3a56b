SPECIFICATION FairSpec
CONSTANTS
  Null = Null
  None = None
  Cap = 5
  Configs <- MCConfigs
  Calls <- MCCalls
  Lines <- MCLines
  MaxLines = 3
  Answers <- MCAnswers
  Texts <- MCTexts
  OaRefusals <- MCOaRefusals
  Lifetimes = {1, 2, 4}
  RetryAfters = {0, 2}
  Waits = {1}
  Phases = {0, 3}
  Overruns = {0, 4}
INVARIANTS
  RequestReachesUpstream
  StreamIsFaithful
  GatewayInv
  FairCharge
  TextReachesCaller
  RateLimitIsReported
PROPERTIES
  EveryCallIsAnswered
