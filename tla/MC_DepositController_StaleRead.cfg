\* An earlier deposit of 1 unsettled while pending deposit 2 is read.
CONSTANTS
  Ctrl = {c1}
  Args <- MCArgs2
  Prior = {p1}
  PriorValue <- MCPriorValue
  InitPending = {2}
  Wallets = {"EOA"}
  Assets = {"ETH"}
  TimeoutGiven = TRUE
  MaxDrops = 0
  PermitLifetime = 5
  MaxMinutes = 0
INIT Init
NEXT Next
INVARIANT NoDepositRejected
