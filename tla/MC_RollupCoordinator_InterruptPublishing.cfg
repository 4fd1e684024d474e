CONSTANTS
  TxId <- MC_TxId
  Bridge <- MC_Bridge
  Configured <- MC_Configured
  RollupFrequency <- MC_RollupFrequency
  BaseInterval = 2
  BaseGas <- MC_BaseGas
  TxGas <- MC_TxGas
  TxCallData <- MC_TxCallData
  BridgeGas <- MC_BridgeGas
  SingleBridgeTxGas <- MC_SingleBridgeTxGas
  FeePayingAssets = {0, 1}
  NoBridge = NoBridge
  NoLink = NoLink
  Scenarios <- MC_Scenarios
  NumInnerRollupTxs = 1
  NumOuterRollupProofs = 2
  MaxGasForRollup = 7
  MaxCallDataForRollup = 3
  MaxUnadjustedGas = 4
  MaxTxCallData = 2
  NUM_BRIDGE_CALLS_PER_BLOCK = 1
  NUMBER_OF_ASSETS = 1
  FlushInputs = {FALSE, TRUE}
  MaxTime = 4
  MaxFailures = 0
  MaxInterrupts = 1

SPECIFICATION Spec
PROPERTY InterruptWhilePublishingIsNoOp
