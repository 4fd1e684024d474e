------------------------- MODULE MC_RollupCoordinator -------------------------
(***************************************************************************)
(* Small instances of RollupCoordinator for TLC. Two rollup slots (one tx  *)
(* per inner rollup, two inner rollups), one bridge slot and one asset     *)
(* slot, so that slot, bridge and asset saturation all occur with three    *)
(* txs. Gas units are scaled so that one tx of each kind leaves room for   *)
(* another unless it is a DeFi deposit or a high-gas withdrawal, and two   *)
(* high-gas txs breach the gas limit.                                      *)
(***************************************************************************)
EXTENDS RollupCoordinator, TLC

MC_TxId == 1..3
MC_Bridge == {1, 2}          \* bridge 1 has a config, bridge 2 has none
MC_Configured == {1}
MC_RollupFrequency == [b \in {1} |-> 1]
MC_BaseGas == 1
MC_TxGas == [t \in TxTypes |-> IF t = "WITHDRAW_HIGH_GAS" THEN 4 ELSE 2]
MC_TxCallData == [t \in TxTypes |-> IF t = "ACCOUNT" THEN 2 ELSE 1]
\* Bridge 2 is cheap enough that two bridges fit the gas limit: only the
\* bridge slot keeps the second out.
MC_BridgeGas == [b \in MC_Bridge |-> IF b = 1 THEN 2 ELSE 1]
MC_SingleBridgeTxGas == [b \in MC_Bridge |-> 1]

\* Tx shapes: a transfer, a DeFi deposit, an account tx, a claim, a
\* high-gas withdrawal.
T(asset, excess, link) ==
  [type |-> "TRANSFER", asset |-> asset, fee |-> 1, excess |-> excess,
   bridge |-> NoBridge, link |-> link]
D(b, asset, excess) ==
  [type |-> "DEFI_DEPOSIT", asset |-> asset, fee |-> 1, excess |-> excess,
   bridge |-> b, link |-> NoLink]
A == [type |-> "ACCOUNT", asset |-> 0, fee |-> 0, excess |-> 0, bridge |-> NoBridge, link |-> NoLink]
C == [type |-> "DEFI_CLAIM", asset |-> 0, fee |-> 1, excess |-> 0, bridge |-> NoBridge, link |-> NoLink]
W(asset) == [type |-> "WITHDRAW_HIGH_GAS", asset |-> asset, fee |-> 1, excess |-> 0,
             bridge |-> NoBridge, link |-> NoLink]

\* Asset saturation, and a chain off the discarded tx's second note.
ScenarioAssets == <<T(0, 0, NoLink), T(1, 0, NoLink), T(0, 0, <<2, 2>>)>>
\* A bridge that becomes profitable with its second deposit.
ScenarioBridge == <<D(1, 0, 0), D(1, 0, 0), T(0, 0, NoLink)>>
\* An unconfigured bridge profitable alone takes the one bridge slot, so a
\* deposit of bridge 1 in the same asset is skipped (or, when flushed or
\* timed out, still refused the slot) and a transfer takes its place.
ScenarioSlots == <<D(2, 0, 1), D(1, 0, 0), T(0, 0, NoLink)>>
\* Claim priority: a claim submitted last is selected first.
ScenarioClaim == <<D(2, 0, 1), T(0, 0, NoLink), C>>
\* A deposit queued while the asset set has room, a transfer filling the
\* set with another asset, then a second deposit of the same bridge that
\* makes the queue profitable: the release meets the full asset set.
ScenarioQueueAssets == <<D(1, 0, 0), T(1, 0, NoLink), D(1, 1, 0)>>
\* Gas and call-data limits: high-gas withdrawals and an account tx.
ScenarioGas == <<W(0), W(0), A>>

MC_Scenarios == {ScenarioAssets, ScenarioBridge, ScenarioSlots, ScenarioGas, ScenarioQueueAssets,
                 ScenarioClaim}
\* A transfer chained off the change note of a DeFi deposit still queued.
MC_ScenarioChainOffQueued == {<<D(1, 0, 0), T(0, 0, <<1, 2>>), T(0, 0, NoLink)>>}
=============================================================================
