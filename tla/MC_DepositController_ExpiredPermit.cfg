\* One EOA deposit flow of a PERMIT token whose approve step signs a permit
\* and whose deposit step comes after the clock has passed its deadline.
CONSTANTS
  Ctrl = {c1}
  Args <- MCArgs2
  Prior = {}
  PriorValue <- MCPriorValue
  InitPending = {0}
  Wallets = {"EOA"}
  Assets = {"PERMIT"}
  TimeoutGiven = TRUE
  MaxDrops = 0
  PermitLifetime = 5
  MaxMinutes = 6
INIT Init
NEXT Next
PROPERTY
  NoExpiredPermitSent
