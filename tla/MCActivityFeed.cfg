SPECIFICATION FairSpec
CONSTANTS
  tx = tx
  other = other
  s1 = s1
  s2 = s2
  h1 = h1
  p1 = p1
  t1 = t1
  c1 = c1
  None = None
  Txs <- TwoTxs
  Mixes <- SendOrPayment
  Submitters <- TwoSubmitters
  Hooks <- OneHook
  Replayers <- OneReplayer
  Tickers <- OneTicker
  Completers <- OneCompleter
  MaxFails = 1
INVARIANTS
  TypeOK
PROPERTIES
  KeepsPromise
  SendEndsTruly
  PaymentGetsItsActivity
CHECK_DEADLOCK FALSE
