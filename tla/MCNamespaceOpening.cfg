SPECIFICATION Spec
CONSTANTS
  a = a  b = b  p = p  q = q  r = r  h1 = h1  h2 = h2
  NoOne = NoOne
  Procs = {p, q, r}
  PayerCreates = {p, q, r}
  Authorities = {a, b}
  Wanted <- MCWanted
  Blockhashes = {h1, h2}
  MaxCalls = 1
  MaxRotations = 1
INVARIANTS AnswersAreTrue RaceIsHarmless
SYMMETRY Alike
CHECK_DEADLOCK FALSE
