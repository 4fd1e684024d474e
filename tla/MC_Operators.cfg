\* Pending pools of up to 4 txs over 2 keys, values up to 2, pending
\* deposits up to 3, and the nine validator tests; pools of up to 7 txs of
\* three types.
CONSTANTS
  Keys = {KeyA, KeyB}
  NoLink = NoLink
  MaxPool = 4
  MaxValue = 2
  MaxPending = 3
  TxTypes = {"DEFI_CLAIM", "DEFI_DEPOSIT", "TRANSFER"}
  MaxLen = 7
INIT Init
NEXT Next
INVARIANTS
  WalkMatchesDefinition
  PreSortIsStableClaimsFirst
