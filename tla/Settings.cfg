SPECIFICATION Spec
CONSTANTS
  Nodes = {n1, n2}
  Editors = {e1, e2}
  Entries <- MCEntries
  Names <- MCNames
  Types <- MCTypes
  Specific <- MCSpecific
  PromptBase <- MCPromptBase
  CompletionBase <- MCCompletionBase
  DefaultModelRatio <- MCModelRatio
  DefaultCompletionRatio <- MCCompletionRatio
  DefaultGroupRatio <- MCGroupRatio
  FamilyRatio <- MCFamilyRatio
  DefaultOf <- MCDefaultOf
  Hosts <- MCHosts
  Scopes <- MCScopes
INVARIANTS ChargesAsGiven BehindHasCause
PROPERTIES Converges
CHECK_DEADLOCK FALSE
