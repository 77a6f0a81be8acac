SPECIFICATION Spec
CONSTANTS
  Calls = {c1, c2}
  PastRun = PastRun
  PastNumbers <- MCPastNumbers
INVARIANTS
  UniqueRunNumbers
