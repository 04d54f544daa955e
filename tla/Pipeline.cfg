\* Bodies of up to 3 lines, in pieces of any size.
SPECIFICATION PipelineSpec
CONSTANTS
  Protocols    <- MCProtocols
  Modes        <- MCModes
  Texts        <- MCTexts
  Reasons      <- MCReasons
  Usages       <- MCUsages
  ToolInputs   <- MCInputs
  Messages     <- MCMessages
  StatusPrefix <- MCPrefix
  Refusals     <- MCRefusals
  BodySizes    <- MCSizes
  MaxBody      = 2
  RefusalLimit = 2
  MaxLines     = 3
  ArgChunkSize = 2
INVARIANTS
  NoEmptySuccess
  StreamComplete
  OutcomeTold
PROPERTIES
  ResponseContract
  RequestEnds
\* A request ends.
CHECK_DEADLOCK FALSE
