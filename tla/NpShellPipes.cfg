SPECIFICATION FairSpec
CONSTANTS
  Size = 8
  FdLimit = 12
  Capacity = 2
  MaxLines = 3
  Lines <- MixedLines
INVARIANTS TypeOK HeldOnlyForLater PipelineWiring NumberedPipeDelivery NoSelfWait UnreapedBound PromptAfterOutput NumberedLineSynced
PROPERTIES BrokenPipeNeedsReader EveryLineCompletes
