\* All streams of up to 8 events.
SPECIFICATION Spec
CONSTANTS
  Texts        <- MCTexts
  ToolKinds    <- MCKinds
  ToolInputs   <- MCInputs
  StopReasons  <- MCReasons
  ArgChunkSize = 2
  MaxEvents    = 8
INVARIANTS
  EventsPaired
  ToolInputWhole
  TerminalEvent
  ContentKept
\* A stream ends.
CHECK_DEADLOCK FALSE
