\* A PERMIT token and an EOA running two deposit flows of different
\* values at once.
CONSTANTS
  Ctrl = {c1, c2}
  Args <- MCArgsMixed
  Prior = {}
  PriorValue <- MCPriorValue
  InitPending = {0}
  Wallets = {"EOA"}
  Assets = {"PERMIT"}
  TimeoutGiven = TRUE
  MaxDrops = 0
  PermitLifetime = 5
  MaxMinutes = 0
INIT Init
NEXT Next
INVARIANT
  NoDepositReverts
