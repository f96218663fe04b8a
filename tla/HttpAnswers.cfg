SPECIFICATION AnswersSpec
CONSTANTS
  RiseCount = 2
  FallCount = 2
  DefaultDown = TRUE
  MaxChecks = 5
  BufSize = 25
  StatusAlive = {2, 3}
  KeepaliveRequests = 2
  Responses <- MCResponses
  OtherTexts <- MCOtherTexts
INVARIANTS DownIsDeclared VerdictIsReference AnswerIsJudged JudgedIsRead
\* The behaviour ends after MaxChecks checks.
CHECK_DEADLOCK FALSE
