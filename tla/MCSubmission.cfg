SPECIFICATION Spec
CONSTANTS
  BPS_DENOMINATOR = 4
  c1 = c1  c2 = c2  h1 = h1  h2 = h2  w = w  v = v  f = f  demo = demo  e = e  bad = bad
  None = None
  Callers = {c1, c2}
  Wallets = {w, v, f}
  Payer <- MCPayer
  Events = {e}
  Keys = {w, v, f, bad}
  Ids = {demo}
  DemoId = demo
  Scenarios <- MCScenarios
  MaxUnits = 4
  MaxSize = 19
  Frozen = {f}
  Blockhashes = {h1, h2}
  MaxCalls = 2
  MaxRotations = 1
INVARIANTS PaidOnce PaysTheRequest NoEmptyNamespace FailuresExplained
SYMMETRY Alike
CHECK_DEADLOCK FALSE
