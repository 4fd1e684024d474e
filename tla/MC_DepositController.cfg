\* One controller per wallet kind and asset kind, no earlier unsettled
\* deposit, an L1 tx may be dropped, the user passes a timeout.
CONSTANTS
  Ctrl = {c1}
  Args <- MCArgs
  Prior = {}
  PriorValue <- MCPriorValue
  InitPending = {0, 1, 2, 3}
  Wallets = {"EOA", "CONTRACT"}
  Assets = {"ETH", "ERC20", "PERMIT", "DAI"}
  TimeoutGiven = TRUE
  MaxDrops = 1
  PermitLifetime = 5
  MaxMinutes = 4
INIT Init
NEXT Next
INVARIANTS
  TypeOK
  NoDepositRejected
  NoDepositReverts
