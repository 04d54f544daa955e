\* All streams of up to 2 lines.
SPECIFICATION Spec
CONSTANTS
  Texts      <- MCTexts
  Reasons    <- MCReasons
  Usages     <- MCUsages
  ToolInputs <- MCInputs
  Messages   <- MCMessages
  MaxLines   = 2
INVARIANTS
  ErrorAlwaysReported
\* The caller stops at end of stream.
CHECK_DEADLOCK FALSE
