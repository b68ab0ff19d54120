\* Two sessions race on one wallet that covers one expensive call.
CONSTANTS
  alice = alice
  s1 = s1
  s2 = s2
  NoSession = NoSession
  Users <- MCUsers
  Sessions <- MCSessions
  Costs <- MCCosts
  TopUps <- MCTopUps
  InitialBalance = 2
  MinInt <- MCMinInt
  MaxInt = 3
  MaxClock = 4
SPECIFICATION FairWalletSpec
INVARIANTS BalanceNonNegative LedgerReconciles
PROPERTIES ImplementsLedger EveryCallAnswered
CHECK_DEADLOCK FALSE
