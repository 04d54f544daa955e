\* All requests of up to 3 declarations and settings.
SPECIFICATION ToolsSpec
CONSTANTS
  Declarable   <- MCDeclared
  Discoverable <- MCDiscovered
  Functions    <- MCFunctions
  MaxFields    = 3
INVARIANTS
  EveryToolReachable
  CallsComeBack
  SettingsHonoured
\* A request is complete at some point.
CHECK_DEADLOCK FALSE
