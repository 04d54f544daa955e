\* All requests of up to 2 declarations and settings.
SPECIFICATION ToolsSpec
CONSTANTS
  Declarable   <- MCDeclared
  Discoverable <- MCDiscovered
  Functions    <- MCFunctions
  MaxFields    = 2
INVARIANTS
  CallsReturnAsDeclared
\* A request is complete at some point.
CHECK_DEADLOCK FALSE
