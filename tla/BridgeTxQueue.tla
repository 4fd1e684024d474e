---------------------------- MODULE BridgeTxQueue ----------------------------
(***************************************************************************)
(* The per-bridge holding queue of DEFI_DEPOSIT txs (bridge_tx_queue.ts,   *)
(* whose source is not in this repository: modelled from spec section 4.2  *)
(* and the gasAccrued figures of src/falafel/src/world_state.test.ts).     *)
(*                                                                         *)
(* A tx is an id; its fields are read from the table `tx`, its creation    *)
(* time from `created`. A bridge timeout is a set holding at most one      *)
(* instant: {} when the queue was built without one.                       *)
(***************************************************************************)
EXTENDS Integers, Sequences, FiniteSets

CONSTANTS
  BaseGas,            \* feeResolver.getUnadjustedBaseVerificationGas()
  TxGas,              \* [TxType -> Nat]: feeResolver.getUnadjustedTxGas(_, type)
  TxCallData,         \* [TxType -> Nat]: feeResolver.getTxCallData(type)
  BridgeGas,          \* [Bridge -> Nat]: feeResolver.getFullBridgeGasFromContract
  SingleBridgeTxGas,  \* [Bridge -> Nat]: feeResolver.getSingleBridgeTxGas
  FeePayingAssets     \* the assets for which feeResolver.isFeePayingAsset holds

\* The gas a single DeFi deposit adds above the per-slot verification gas.
DefiTxGas == TxGas["DEFI_DEPOSIT"] - BaseGas

\* transactionHasTimedOut(tx): the queue has a timeout and tx predates it.
TransactionHasTimedOut(bt, createdAt) == \E t \in bt : createdAt < t

\* gasAccrued: what the queued txs have paid towards the bridge's fixed
\* cost, each its single-tx share plus its excess, capped at the full cost.
GasAccrued(q, tx, b) ==
  LET RECURSIVE Acc(_)
      Acc(s) == IF s = <<>> THEN 0
                ELSE SingleBridgeTxGas[b] + tx[Head(s)].excess + Acc(Tail(s))
  IN IF Acc(q) > BridgeGas[b] THEN BridgeGas[b] ELSE Acc(q)

\* Whether a tx's fee occupies a slot of the rollup's asset set.
UsesAssetSlot(t) == t.fee > 0 /\ t.asset \in FeePayingAssets

\* getTxsToRollup: nothing unless the bridge is profitable or the head of
\* the queue has timed out; otherwise take queued txs in insertion order
\* while each fits the slots, the asset set and the remaining gas and
\* call data (the bridge's full gas counted once, on the first tx), and
\* stop at the first that does not.
TxsToRollup(q, tx, created, bt, b, slots, assets, maxAssets, gasRem, cdRem) ==
  LET profitable == GasAccrued(q, tx, b) >= BridgeGas[b]
      deadlined  == q # <<>> /\ TransactionHasTimedOut(bt, created[Head(q)])
      none       == [txs |-> <<>>, gas |-> 0, callData |-> 0, assets |-> assets]
      RECURSIVE Take(_, _)
      Take(s, r) ==
        IF s = <<>> THEN r
        ELSE LET t   == tx[Head(s)]
                 gas == r.gas + DefiTxGas + (IF r.txs = <<>> THEN BridgeGas[b] ELSE 0)
                 cd  == r.callData + TxCallData["DEFI_DEPOSIT"]
                 as  == IF UsesAssetSlot(t) THEN r.assets \cup {t.asset} ELSE r.assets
             IN IF /\ Len(r.txs) < slots
                   /\ Cardinality(as) <= maxAssets
                   /\ gas <= gasRem
                   /\ cd <= cdRem
                THEN Take(Tail(s), [txs |-> Append(r.txs, Head(s)), gas |-> gas,
                                    callData |-> cd, assets |-> as])
                ELSE r
  IN IF profitable \/ deadlined THEN Take(q, none) ELSE none

=============================================================================
