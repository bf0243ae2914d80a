SPECIFICATION SpecOfOneChain
CONSTANTS
  Purchase = {p1}
  Run = {r1, r2}
  NoPurchase = NoPurchase
  Price <- MCPrice
  Checked = {p1}
  Funds = 2
  MaxRetries = 2
  MaxCrashes = 1
  Env = {"lostAnswer", "slowWrite"}
  AccountChain = {evm, sol, tron, xrp}
  Evm = {evm}
  Unsure = {sol, tron}
  ToppedUp = {evm, sol}
  Net = {tron, xrp}
  Wallet = {coin, token}
  Token = {token}
  Cost = {1, 2}
  Buffer <- MCBuffer
  Coins = 4
  Tokens = 2
  Value = {5}
  Amount = {2}
  MaxEvents = 3
  OutputChain = {btc, doge, ada}
  Gross = {ada}
  Floor = 4
  Dust <- MCDust
  Reserve <- MCReserve
  Rate <- MCRate
  Master = master
  Child = {coin}
  MasterCoins <- MCCoins
  CoinValue = {3, 6}
  CoinAmount = {4}
  MaxCoins = 6
  evm = evm
  sol = sol
  tron = tron
  xrp = xrp
  btc = btc
  doge = doge
  ada = ada
SYMMETRY Symmetry
INVARIANT AllTypesOK
INVARIANT ChargedOnlyIfDelivered
INVARIANT ChainCreditsCovered
INVARIANT WithdrawalsHold
CHECK_DEADLOCK FALSE
