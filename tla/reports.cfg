SPECIFICATION Spec
CONSTANTS
  Category <- Categories
  Feeds <- AllFeeds
  WindowSecs = 2
  MinWindowCalls = 2
  DegradationMultiple = 3
  HighDegradationMultiple = 6
  DegradationErrorPct = 10
  MinConfirmed = 1
  MaxTerminalFailures = 1
  MaxTimeouts = 1
  AllowedErrorClasses = {"insufficient_balance"}
  HighPct = 20
  MediumPct = 5
  MinDisparityPct = 20
  HighDisparityPct = 40
  MinTailSample = 3
  TailMultiple = 5
  HighTailMultiple = 10
  MinAbsoluteP99 = 50
  SlownessFloor = 1000
  Second = 2
INVARIANTS FailuresAreReported SlowReportedOnce CurveIgnoresFileOrder VerdictIsOfTheReport TimingAddsUp SummaryAgreesWithReport
CHECK_DEADLOCK FALSE
