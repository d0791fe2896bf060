SPECIFICATION Spec
CONSTANTS
  Key = {" ", "k", "secret", "Extra", "extra", "service.name"}
  BlankKey = " "
  ValueBits = 3
  MaxDepth = 3
  Fold <- MCFold
  BuiltIn = {"secret"}
  Streams <- MCStreams
  Hex = {"t", "T", "u", "a", "A", "b"}
  Lower <- MCLower
  GoodAttributes <- ValidAttributes
  Attributes <- AttributeValues
  NoText = ""
  Blank = " "
  ServiceName = "service.name"
  NoService = ""
  ClockBits = 3
  CountBits = 2
  AdditionalKeys <- MCAdditionalKeys
CHECK_DEADLOCK FALSE
INVARIANTS
  MergedAsOne
  RejectedIfFaulty
  DurationsExact
  RedactionExact
