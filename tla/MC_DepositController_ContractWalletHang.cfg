\* A contract wallet with an earlier unsettled deposit; the user passes a timeout.
CONSTANTS
  Ctrl = {c1}
  Args <- MCArgs2
  Prior = {p1}
  PriorValue <- MCPriorValue
  InitPending = {1, 2}
  Wallets = {"CONTRACT"}
  Assets = {"ETH"}
  TimeoutGiven = TRUE
  MaxDrops = 0
  PermitLifetime = 5
  MaxMinutes = 0
SPECIFICATION Spec
PROPERTY FlowTerminates
