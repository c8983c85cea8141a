SPECIFICATION Spec
CONSTANTS
  a = a
  b = b
  ax = ax
  bx = bx
  x = x
  s1 = s1
  m1 = m1
  editor = editor
  c1 = c1
  k1 = k1
  None = None
  Source = {a, b}
  Session = {s1}
  ToolsOf <- MCToolsOf
  Bare <- MCBare
  Scope <- MCScope
  Chat = {c1}
  McpCall = {k1}
  McpSession = {m1}
  ClientOf <- MCClient
  Policy <- MCPolicy
  MaxCalls = 2
  MaxChanges = 3
INVARIANTS
  PolicyHolds
  OfferedRuns
  RequestsWaited
PROPERTIES
  McpAnswers
  LeftChatsEnd
CHECK_DEADLOCK FALSE
