SPECIFICATION Spec
CONSTANTS
  get = get
  post = post
  serve = serve
  plain = plain
  tagged = tagged
  ok = ok
  failed = failed
  timeout = timeout
  refused = refused
  Key = {get, post, serve}
  Label <- MCLabel
  Semantic <- MCSemantic
  Status = {ok, failed}
  ErrorStatus = failed
  ErrorType = {timeout, refused}
  Root = Root
  External = External
  NoParent = NoParent
  MaxTraces = 3
  MaxCount = 3
  Broken = Broken
  Malformed = Malformed
  Encoding <- MCEncoding
  Requests <- MCRequests
  Percentages = {0, 100, 103, 200}
  Absolutes = {0, 1, 100}
  Invalid = Invalid
  NoPair = NoPair
CHECK_DEADLOCK FALSE
INVARIANTS
  FindingsExact
  OrderDetermined
  SpansAccounted
  ChangesNameSpans
  SameBehaviourSilent
PROPERTY
  ImplementsComparison
