SPECIFICATION Spec
CONSTANTS
  BPS_DENOMINATOR = 10000
  k1 = k1
  k2 = k2
  zero = zero
  id1 = id1
  e1 = e1
  e2 = e2
  fake = fake
  t1 = t1
  t2 = t2
  t3 = t3
  m1 = m1
  m2 = m2
  Keys = {k1, k2}
  ZeroKey = zero
  NamespaceIds = {id1}
  Events = {e1, e2}
  Amounts = {0, 3}
  BpsVectors <- MCBpsVectors
  RecipientVectors <- MCRecipients
  AuthorityArgs <- MCAuthorityArgs
  Impostors = {fake}
  Claims <- MCClaims
  TokenAccounts = {t1, t2, t3}
  Mints = {m1, m2}
  Mint <- MCMint
  Holder <- MCHolder
  Decimals <- MCDecimals
  DecimalsArgs = {6, 9}
  Creators = {k1}
  Deposits = {1}
  DepositTargets <- MCDepositTargets
  WalletRent = 1
  RecordRent = 2
  NamespaceRent = 3
  InitialLamports = 7
  InitialTokens = 3
INVARIANTS Conserved RentExempt NeverBlocked
PROPERTIES AccountsPermanent PayoutsRecoverable ImplementsBook NoUnsignedDebit
CHECK_DEADLOCK FALSE
