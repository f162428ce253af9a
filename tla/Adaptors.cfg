SPECIFICATION Spec
CONSTANTS
  PromptTokens = 2
  Reports <- MCReports
  CompletionRatio = 2
  MaxStep = 3
  MaxMessages = 3
  MaxItems = 3
INVARIANTS DoneClosesStream SilentOnError TextRenderedOnce FreeTextHasCause TurnsDroppedByRule ProducerNotLeft
PROPERTIES CallEnds
