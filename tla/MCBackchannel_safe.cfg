SPECIFICATION FairSpec
CONSTANTS
  Conn = {c1, c2}
  Call = {k1}
  Name = {n1}
  Vscode = Vscode
  Tool = {t1}
  MaxChanges = 1
  None = None
INVARIANT PendingAwaited
INVARIANT NamedToolsOwned
PROPERTY CallsSettle
CHECK_DEADLOCK FALSE
