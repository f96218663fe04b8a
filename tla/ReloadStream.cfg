SPECIFICATION MCSpec
CONSTANTS
  Confs <- SharedServer
  ByUpstream = TRUE
  RiseCount = 2
  FallCount = 2
  DefaultDown = TRUE
  MaxReloads = 4
  LateErrors = TRUE
INVARIANTS ReloadTypeOK
PROPERTIES StatusSurvivesReload DownOnlyByFailures
