\* One controller per wallet kind and asset kind, no earlier unsettled
\* deposit, no dropped L1 tx, no timeout passed (the default).
CONSTANTS
  Ctrl = {c1}
  Args <- MCArgs
  Prior = {}
  PriorValue <- MCPriorValue
  InitPending = {0, 1, 2}
  Wallets = {"EOA", "CONTRACT"}
  Assets = {"ETH", "ERC20", "PERMIT", "DAI"}
  TimeoutGiven = FALSE
  MaxDrops = 0
  PermitLifetime = 5
  MaxMinutes = 0
SPECIFICATION Spec
PROPERTY FlowTerminates
PROPERTY ImplementsFunding
