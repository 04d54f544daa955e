\* All streams of up to 4 lines.
SPECIFICATION AnswersSpec
CONSTANTS
  a = a
  b = b
  Texts        <- MCTexts
  Reasons      <- MCReasons
  Usages       <- MCUsages
  ToolInputs   <- MCInputs
  Messages     <- MCMessages
  MaxLines     = 4
  ArgChunkSize = 2
SYMMETRY MCSymmetry
INVARIANTS
  TypeOK
  BlockDiscipline
  BlockSequence
  SignedThinking
  ContentPreserved
  EndsProperly
  MessageMatchesStream
  ToolInputsKeptApart
  ChatStreamReadable
  StreamMatchesCompletion
  FailureNeverLooksLikeSuccess
  TokensAddUp
\* The caller stops at end of stream.
CHECK_DEADLOCK FALSE
