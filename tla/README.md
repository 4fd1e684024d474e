# TLA+ models of aztec-connect's rollup coordinator and deposit flow

This directory holds TLA+ specifications of the rollup batching logic of
aztec-connect's sequencer (falafel), of its block validator, and of the SDK's
deposit flow, with the TLC configurations that check them. It also lists the parts of the repository that are not yet modelled,
together with the plan for modelling them.

## The system and its parts

The repository contains eight source files. They fall into these parts:

| Part | Source | Modelled by | Status |
|---|---|---|---|
| Rollup coordinator | `src/falafel/src/pipeline_coordinator/rollup_coordinator.ts` | `RollupCoordinator` | modelled |
| Bridge tx queue (`bridge_tx_queue.ts`, not in the repo) | spec, gasAccrued figures in `world_state.test.ts` | `BridgeTxQueue` | partly (spec-modelled) |
| Publish time manager (`publish_time_manager.ts`, not in the repo) | spec, its unit test `src/unnamed/part_003` | `PublishTimeManager`, checked in `MC_Operators` | partly (spec-modelled) |
| Rollup profiler (`rollup_profiler.ts`, not in the repo) | spec | `ProfileRollup` in `RollupCoordinator` | partly (spec-modelled) |
| Pre-sort of the pool (`getNextTxsToRollup`, lines 102-104) | `rollup_coordinator.ts` and V8's `Array.prototype.sort` | `PreSort` | modelled |
| World-state block validator (`world_state.ts`, not in the repo) | spec 4.7, tests in `src/falafel/src/world_state.test.ts` | `BlockValidator` | partly (spec-modelled) |
| SDK deposit controller | `src/sdk/src/controllers/deposit_controller.ts` lines 1-548 | `DepositController` | modelled |
| AztecSdk facade | same file, lines 549-1223 | `Construct` in `DepositController` (for `createDepositController`) | partly: the rest is delegation (see below) |
| Contract tests | `src/unnamed/part_000`, `part_001` | none | not modelled: hardhat tests of Solidity code not in the repo |
| Deploy script | `src/unnamed/part_002` | none | not modelled: process launches, pure I/O |
| CoreSdk interface | `src/unnamed/part_004` | none | not modelled: type declarations |

**How the parts interact.** The sequencer's pipeline calls
`RollupCoordinator.processPendingTxs(pendingTxs, flush)` on every tick. It
passes the pending-tx pool in creation order.

The coordinator works in this order:
1. It asks the `PublishTimeManager` for the last rollup-number-aligned timeouts.
2. It rebuilds one `BridgeTxQueue` per configured bridge.
3. It walks the pool and selects txs within the limits of the rollup. The
   limits are:
   - slots;
   - a set of at most `NUMBER_OF_ASSETS` fee assets;
   - at most `NUM_BRIDGE_CALLS_PER_BLOCK` bridges;
   - L1 gas;
   - call data.
4. It profiles the selection.
5. It decides whether to publish: on flush, if profitable, if a deadline has
   passed, if out of gas, call data or slots.
6. If it publishes, it awaits the rollup creator (once per inner rollup, in
   sequence), then the parallel proof construction, then the aggregator, and
   finally the publisher.

`interrupt()` can be called at any time. It raises a flag that the
coordinator checks at two checkpoints, interrupts the two children, and
clears `processedTxs`. After a publish or an interrupt, the pipeline builds
a fresh coordinator.

On the client side, the SDK's `DepositController` does the following:
- deposits funds into the rollup contract's pending-deposit map, by
  `approve`, then permit or plain deposit;
- builds and signs a deposit proof;
- sends the proof to the sequencer.

The sequencer's block validator then caps what a tx may take from the
pending deposits of its (asset, owner).

## Modules

- **`PublishTimeManager.tla`** (spec-modelled). `LastTimeouts(now)` gives
  the last base boundary and the last per-bridge boundaries (interval ×
  rollupFrequency, for frequencies ≥ 1). With an interval below 1 s there
  are no timeouts. The coordinator uses it for its deadlines and its queue
  timeouts. `calculateNextTimeouts` is not used by the coordinator and is
  not modelled.
- **`BridgeTxQueue.tla`** (spec-modelled). It contains:
  - `TransactionHasTimedOut`;
  - `GasAccrued`: each queued tx's single-tx share plus its excess, capped at
    the bridge's full gas;
  - `TxsToRollup`: nothing unless the bridge is profitable or the head of the
    queue has timed out. Otherwise it takes a greedy prefix that stops at the
    first tx that does not fit, and charges the bridge's full gas on the
    first tx.
- **`RollupCoordinator.tla`** models the coordinator and the environment it
  runs in.
  - *State*:
    - the coordinator's fields: `state`, `interrupted`, `processedTxs` and
      `bridgeQueues`;
    - the suspension points of the two async methods: `pc` for
      `processPendingTxs`, with `chunk` counting finished `createRollup`
      calls, and `intPc` for `interrupt`;
    - the selection being proved (`batch`);
    - the environment: the tx table `tx` (fixed per behaviour), `now`, the
      pool `pending` with `created` times, and the published `rollups`.
  - *Atomic steps*. JavaScript runs one continuation at a time, so each
    stretch of code between two awaits is one action:
    - `ProcessPendingTxs(flush)` covers code lines 72-80 and 317-371: the
      timeouts, the queue rebuild, the whole selection, the checkpoint, the
      profile, the publish decision, `processedTxs`, and the start of the
      first `createRollup`.
    - `CreateRollup`, `CreateProofs` and `AggregateAndCheckpoint` are the
      three awaits. The last of them includes the checkpoint,
      `state := PUBLISHING` and the publisher call.
    - `PublishRollupReturns` covers the publisher's answer, true or false
      (a throw leaves the same state as false). It appends the rollup to
      the chain and nothing else.
    - Every await may also reject (`AwaitFails`). Rejections are bounded by
      `MaxFailures`, or caused by the interrupt once it has reached that
      child.
    - `Interrupt(shouldThrow)`, `InterruptCreatorReturns` and
      `InterruptAggregatorReturns` are `interrupt()` split at its two awaits.
    - `SubmitTx`, `AdvanceClock` and `NewCoordinator` are the environment.
      The pending list is read fresh from the database on every tick
      (spec 4.4). So `NewCoordinator`, the pipeline's step after a publish,
      also drops the published txs from `pending`; the coordinator itself
      never removes them.
  - *Selection*. `GetNextTxsToRollup` is a recursive fold of `ConsiderTx`
    over the sorted pool. `ConsiderTx` follows the loop body's early
    `continue`s in order: account txs, asset set full, chained off a
    discarded tx, non-DeFi txs, DeFi txs (`HandleNewDefiTx`).
  - *Data abstraction*.
    - A tx is an id with a record: type, fee asset, fee, excess gas, bridge,
      backward link.
    - Its note commitments are `<<id, 1>>` and `<<id, 2>>`.
    - Gas and call data figures come from small `TxGas` / `TxCallData`
      tables standing for the fee resolver.
- **`MC_RollupCoordinator.tla`** instantiates the coordinator for TLC. It has
  3 tx ids and 2 bridges, one of them configured with frequency 1. The
  unconfigured bridge 2 has a full gas of 1, so that two bridges fit the
  gas limit and only the bridge slot keeps the second one out. There are
  6 tx tables:
  - `ScenarioAssets`: two fee assets and a tx chained off the one that loses
    the asset slot;
  - `ScenarioBridge`: two DeFi txs that together make a bridge profitable;
  - `ScenarioSlots`: bridge 2, profitable alone, takes the one bridge slot,
    so a deposit of bridge 1 is skipped (line 253), even when flushed or
    timed out;
  - `ScenarioGas`: two high-gas withdrawals that cannot share a rollup;
  - `ScenarioQueueAssets`: a deposit is queued while the asset set has
    room, then a transfer fills the set with another asset, and a second
    deposit makes the queue profitable, so the queue's release meets the
    full asset set;
  - `ScenarioClaim`: a claim submitted last is selected first.

  The limits are small enough that each scenario reaches its limit:
  - 2 slots in inner rollups of 1;
  - gas 7, call data 3;
  - 1 asset, 1 bridge call.

  The clock runs to 4 with a base interval of 2, so each tx can pass a
  deadline.
- **`RollupBatching.tla`** is the abstract spec of what the sequencer
  promises about what it publishes, whatever its policy. `Submit(id)` adds
  a tx to the pool. `Publish(r)` publishes a nonempty sequence of distinct
  pool txs. The sequence must be within the rollup's limits (`Fits`), and
  every tx's guarded parent (`Guards`) must be published earlier or come
  earlier in `r`. The published txs leave the pool. `RollupCoordinator`
  instantiates it as `Batching`:
  - `table <- tx`, `pool <- ToSet(pending) \ Settled` (the pending txs
    not yet published), `published <- rollups`;
  - `Fits <- RollupFits`, the slot, bridge, asset, gas and call-data
    limits recomputed from the txs;
  - `Guards <- MustFollow`, the parent of a chained tx unless it is an
    account tx or a DeFi deposit (finding 1).

  `ImplementsBatching` (`Batching!Spec`) is checked as a PROPERTY. All
  the coordinator's internal steps (ticks, awaits, interrupts, fresh
  coordinators) are stuttering steps of the abstract spec. `SubmitTx` is
  `Submit`, and an accepted `PublishRollupReturns` is `Publish`.
  The property is checked in the liveness run, which has one interrupt
  and neither flushes nor failures. It holds in the safety run too,
  266,684 states with flushes and a failure. It is kept out of that run
  because the bugs the safety mutants plant break the refinement first.
- **`PreSort.tla`** models the sort at the head of `getNextTxsToRollup`.
  Its comparator (`Compare`, code lines 102-104) never answers 0 and is not
  antisymmetric, so ECMAScript leaves the order to the engine. The module
  writes V8's algorithm for arrays under 64 elements as RECURSIVE
  operators: `MakeRun` (TimSort's CountAndMakeRun, reversing a strictly
  descending leading run) and `BinaryInsertionSort` with its binary search
  `InsertionPoint`. `MC_Operators.tla` enumerates every pool of up to 7 txs
  over three tx types, each as one initial state; the same module's clock
  cases check `PublishTimeManager`.
- **`BlockValidator.tla`** (spec-modelled: `world_state.ts` is not in the
  repository). `RejectedTxs` is the walk falafel runs over its pending txs
  on every block, as a RECURSIVE operator: a tx is rejected when a
  nullifier is spent, when it is a deposit that with the deposits accepted
  before it exceeds its (asset, owner)'s on-chain pending deposit
  (`BreachesPendingDeposit`), or when it chains off a note of a rejected tx
  (`Notes`). `MC_Operators.tla` checks it two ways: against a
  declarative definition (`ConsistentRejection`) over every pool of up to 4
  txs, and against the nine validator scenarios of `world_state.test.ts`,
  written out as inputs with their expected deletions (values in thousands,
  which keeps every comparison of the tests).
- **`DepositController.tla`** models the SDK's deposit flow and the world
  it talks to.
  - *Environment* (not mapped to code, which is not in the repository):
    - the L1 chain: the depositor's pending deposit `pd`, its token
      `allowance` to the rollup contract, the approved proof hashes, a
      mempool `l1` of broadcast txs, and the set `reverts` of controllers
      whose deposit tx was mined and reverted. `Mine(t)` applies a tx the
      way the rollup and token contracts do (an ERC20 deposit reverts
      without allowance, a permit deposit reverts unless its signature was
      for the amount it deposits, DAI's non-standard permit grants an
      unlimited allowance, and a permit deposit past its deadline
      reverts); `Drop(t)` loses a broadcast tx (at most `MaxDrops`).
    - a clock `now` in minutes, advanced by `Tick` up to `MaxMinutes`.
      A permit signed without a given deadline expires at
      `PermitDeadline`, `PermitLifetime` minutes after signing
      (`createPermitArgs`, line 440).
    - falafel: its pool of deposit proofs (records of `BlockValidator`);
      `RollupMined(S)` settles any subset of the pool, maybe none of the
      depositor's, decrementing `pd`; `HandleBlock` removes the settled txs
      and runs `RejectedTxs` on the rest against `pd`.
    - the user: after `getRequiredFunds` it picks one of the documented
      call orders (`Scripts`), e.g. `approve`, `awaitApprove`,
      `depositFundsToContract`, `awaitDepositFundsToContract`,
      `createProof`, `sign`, `send`, `awaitSettlement` for an EOA; a
      contract wallet creates its proof first, since its deposit carries
      the proof hash. `Call(c)` makes the next call once the last returned.
  - *Construction*: `AztecSdk.createDepositController` only calls the
    constructor, which is `Construct(c)`. Its arguments `args[c]` (deposit
    value, fee, whether the fee is in the deposit's asset, whether a fee
    payer is given) are chosen in `Init` from the constant `Args`. It
    throws on a zero value and zero fee, and on a fee-paying proof
    (`RequireFeePayingTx`: a fee in another asset, or a fee payer) with no
    fee payer. Otherwise the user's first call is `getRequiredFunds`, for
    `publicInput.value` (`PublicValue`: the value plus a same-asset fee).
  - *Controller state*, per controller `c`: the method `m[c]` and its step
    `pc[c]`, `st[c]` for `this.pendingFundsStatus`, `loc[c]` for the local
    status of the running method, `rd[c]` and `alw[c]` for values read
    before an await and used after it, `bg[c]` for the background `sendTx`
    of `sendTransactionAndCheckOnchainData`, `proof[c]` for `proofOutput`.
  - *Actions*: each method is cut at its awaits on shared state.
    `getPendingFundsStatus` is two actions (`ReadUserPendingDeposit`, then
    `GetPendingFundsStatus` reading the pool), so anything may happen in
    between. `CheckRequiredFunds`, `ApproveReadAllowance`,
    `DepositReadAllowance`, `DepositSend` and `DepositNonStandardSend` are
    the rest of `approve` and the two deposit methods. `SendTx` is an EOA
    awaiting the provider (which may reject) or a contract wallet starting
    `sendTransactionAndCheckOnchainData`, whose background task
    (`WalletReturnsHash`, `WalletThrows`, or nothing ever) races the polling
    loop. `WalletThrows` may come before the tx is broadcast, or after it
    is already in the mempool or mined; the catch at lines 505-508 cannot
    tell these apart. The polling loop is `SatcSeesOnchainData` and
    `SatcReturns`. The await methods are
    `AwaitStart` and `awaitTransaction`'s `AwaitConfirmed` /
    `AwaitTimesOut`. What each one reads is a definition of its own
    (`AwaitApprove`, `AwaitDepositFundsToContract`, `AwaitApproveProof`
    with `IsProofApproved`): whether it returns at once, whether a tx hash
    was recorded, and the chain condition it polls. `CreateProof`, `Sign`, `ApproveProof`, `Send` and
    `AwaitSettlement` finish the flow.
  - *Data abstraction*: one asset and one depositor; tx hashes are booleans;
    a permit signature is the amount it was signed for and its deadline; `MaxUint` (1000)
    stands for uint256's maximum.

  `MC_DepositController.tla` gives the constructor's arguments. `MCArgs` has
  five shapes: a deposit of 1 with a same-asset fee of 1; a deposit of 2
  with a fee in another asset and a fee payer; the same without a fee payer
  (throws); a same-asset fee paid by a fee payer; and nothing at all
  (throws). `MCArgs2` is the first alone (`publicInput.value` 2), and
  `MCArgsMixed` adds a deposit of 1 without fee, for two flows. Each
  earlier unsettled deposit has a value of 1.
- **`DepositFunding.tla`** is the abstract spec of what a depositor's
  flows promise the rollup. `Fund` raises the pending deposit `pd`.
  `Propose(id)` adds a proof to the pool only if `pd` covers it on top of
  every unsettled proof there. `Settle(S)` settles pool proofs and spends
  their value from `pd`. Nothing is ever rejected, and each proof in the
  pool settles under weak fairness. `DepositController` instantiates it as
  `Funds`, with `pool <- UnsettledDeposits` (the pool's deposits whose
  rollup is not mined yet, with their values) and `settled <- settled \cup
  onChain`. A mined deposit tx is `Fund`, `Send` is `Propose`, and
  `RollupMined` is `Settle`. Every other step stutters.
  `ImplementsFunding` (`Funds!Spec`) is checked in `deposit_liveness`.

## Runs

| Run | Config | Expect | What it shows |
|---|---|---|---|
| `coordinator_safety` | `MC_RollupCoordinator.cfg` | pass | See below. |
| `coordinator_liveness` | `MC_RollupCoordinator_Liveness.cfg` | pass | `DeadlinedTxsEventuallyPublished`: every submitted non-DeFi tx, and every DeFi tx of a bridge with a deadline, ends up in a published rollup. This holds even when one collaborator fails part-way through a batch, and with or without an interrupt on the way. `ImplementsBatching`: the coordinator refines `RollupBatching`. |
| `chain_off_queued_defi` | `MC_RollupCoordinator_ChainOffQueued.cfg` | violation | `ChainedParentIncluded` (spec P2) fails. See finding 1. |
| `interrupt_while_publishing` | `MC_RollupCoordinator_InterruptPublishing.cfg` | violation | `InterruptWhilePublishingIsNoOp` (spec §4.6) fails. See finding 2. |
| `stale_processed_txs` | `MC_RollupCoordinator_StaleProcessedTxs.cfg` | violation | `ProcessedTxsCurrent` fails. See finding 3. |
| `operators` | `MC_Operators.cfg` | pass | `WalkMatchesDefinition`: the validator's walk rejects exactly the unique set a declarative definition describes, for all 256,441 inputs, and exactly the deletions each test of `world_state.test.ts` expects. `PreSortIsStableClaimsFirst`: for every pool of up to 7 txs, V8's sort with the code's comparator gives the stable claims-first partition that the coordinator model assumes (`SortClaimsFirst`). |
| `deposit_safety` | `MC_DepositController.cfg` | pass | One flow, every shape of constructor arguments, every wallet kind, every asset kind, starting pending deposit 0-3, one dropped L1 tx, a timeout given: `TypeOK`, `NoDepositRejected` (the proof is never deleted by the validator) and `NoDepositReverts` (no deposit tx the controller sends reverts). |
| `deposit_liveness` | `MC_DepositController_Liveness.cfg` | pass | `FlowTerminates`: with no timeout and no dropped tx, every flow ends. `ImplementsFunding`: the flow refines `DepositFunding`, so its proof reaches the pool only once the pending deposit covers it, and settles. |
| `stale_pending_funds` | `MC_DepositController_StaleRead.cfg` | violation | `NoDepositRejected` fails. See finding 4. |
| `contract_wallet_hang` | `MC_DepositController_ContractWalletHang.cfg` | violation | `FlowTerminates` fails though a timeout is given. See finding 5. |
| `stale_permit_args` | `MC_DepositController_StalePermit.cfg` | violation | `NoDepositReverts` fails. See finding 6. |
| `expired_permit_args` | `MC_DepositController_ExpiredPermit.cfg` | violation | `NoExpiredPermitSent` (no permit deposit is broadcast after its deadline) fails. See finding 7. |

The `coordinator_safety` run includes flushes, one collaborator failure and
one interrupt of either kind. It checks `TypeOK` and these properties:
- `BatchFitsRollup`: a batch never exceeds the slots, the bridges, the
  assets, the gas or the call data, and lists every bridge and fee asset it
  uses. The scenarios reach the bridge-slot skip (line 253) and a queue
  release that meets a full asset set.
- `NoChainOffDiscarded`: no tx chained off a discarded pool tx is selected.
- `GasAccountingExact`: the gas and call data reserved during selection
  equal what `profileRollup` recomputes. This means a bridge's full gas is
  charged exactly once, on whichever of the four paths adds it.
- `PublishOnlyIfNotInterrupted`: no publish starts after a non-throwing
  `interrupt()`.

Every property of a passing run has a mutant in `PROJECT.json`. A mutant is
a plausible bug in the definition it replaces, and TLC finds the property
violated under that bug. The mutants are:
- an off-by-one chunk count;
- a dropped gas check;
- discarding only one note commitment;
- a DeFi tx added without reserving its resources;
- a missing checkpoint;
- base deadlines ignored;
- discarding only one note commitment, which also breaks the refinement
  (a tx chained off the other note is published without its parent);
- the comparator without its `a.txType !== b.txType` clause;
- a next timeout rounded up, so that an instant on a boundary is its own
  next timeout;
- a deposit exactly at the cap rejected, and a chain rejection that is not
  passed on to the txs chained off it;
- `requiredFunds` one short, and without its guard against funds already
  sufficient; one short also breaks `ImplementsFunding`, since the proof is
  then sent uncovered;
- `depositFundsToContract` without its "Insufficient allowance" check;
- an awaited deposit that compares with `>` rather than `===`, so that it
  never returns.

**Findings.**
1. `handleNewDefiTx` never calls `discardTx` for a DeFi deposit that it
   queues or skips (code lines 253-256, 280-293). A transfer that chains off
   that deposit's change note therefore passes the chain check and is
   published without its parent. The spec's P2 forbids this; its open
   questions mention the case.
2. `interrupt(false)` does not look at `state`. While `publishRollup` is
   outstanding it raises `interrupted` and empties `processedTxs`, but
   spec §4.6 says an interrupt once publishing has no effect.
3. `processedTxs` is commented "Track txs currently being processed" (line
   364), but when `createRollup` throws the coordinator goes back to idle
   with `processedTxs` still set, and `getProcessedTxs` keeps reporting txs
   that no rollup is building.
4. `getPendingFundsStatus` reads the chain's pending deposit (line 428) and
   then falafel's pending deposit txs (429). If the rollup that settles an
   earlier deposit lands in between, that deposit is counted by the first
   read and not subtracted by the second. With 2 pending on chain, 1 of it
   for an earlier proof, the controller computes `requiredFunds` 0; the
   user skips the deposit and sends the proof, and the block validator
   deletes it (1 pending, proof of 2).
5. A contract wallet's `sendTx` may never return (the comment at line 503
   says so). `sendTransactionAndCheckOnchainData` is called without a
   timeout by all three callers, so its only exit is the chain check, which
   for a deposit is exact equality (line 196). If an earlier deposit settles
   while the loop polls, the equality never holds again and the loop runs
   forever, ignoring the timeout the user passes to the await methods.
6. `approve()` keeps `permitArgs` signed for the `requiredFunds` of its own
   read, and `depositFundsToContract` reuses them (line 174) for the
   `requiredFunds` of a new read. If another deposit of the depositor lands
   between the two calls (here a second flow of value 1 beside one of
   value 2), the permit is for 2, the deposit is for 1, and the deposit
   reverts on chain.
7. `approve()` signs `permitArgs` with a default deadline of now + 5
   minutes (line 440). `depositFundsToContract` reuses them (line 174)
   without comparing the deadline with the time. When it is called more
   than five minutes after `approve()`, it broadcasts a permit deposit
   that the chain reverts. A fresh permit, the fallback at line 174, would
   have gone through. The run takes one EOA flow of a permit token:
   `approve`, six minutes pass, `depositFundsToContract`.

Two more disagreements were found and not kept as runs. An
`awaitDepositFundsToContract` without a timeout also hangs when an earlier
deposit settles. Two flows of equal value of one depositor both count the
same pending funds, and one proof is deleted. Nothing in the code or the
spec limits a depositor to one flow at a time, which is why the kept
`stale_permit_args` run uses two flows. The equal-value run is not kept
because `stale_pending_funds` already shows a proof deleted by the same
two-read race.

The same holds for the facade's own `depositFundsToContract` (lines
1089-1094), an unchecked deposit of the same depositor made during a flow.
With it added as an environment step, TLC finds two failures. An ERC20
deposit through the facade spends the allowance the controller's `approve`
set, so the controller's deposit reverts (`NoDepositReverts`). And it
raises the pending deposit past the exact target of
`awaitDepositFundsToContract` (line 269), which then never returns
(`FlowTerminates`). It is listed as a hazard rather than kept as an actor.

**Fairness.** The fairness is weak fairness on these actions:
- polling without flush: the pipeline calls `processPendingTxs` on a timer;
- each collaborator's answer: a pending promise settles;
- both interrupt continuations;
- the clock;
- the pipeline's replacement of a finished coordinator.

Flushing, submissions, failures and interrupts get no fairness.

In `DepositController` the fairness is:
- weak fairness on every controller step except the polls. A called
  async method runs to its next await, and an awaited read answers.
- strong fairness on `SatcSeesOnchainData` and `AwaitConfirmed`. The
  loops poll every `interval` seconds forever, so a check that holds
  infinitely often is seen.
- weak fairness on `SatcReturns` and `AwaitTimesOut`.
- weak fairness on mining. Each pool tx has its own weak fairness on a
  rollup that includes it, since the sequencer publishes every valid tx
  eventually. Empty rollups alone may not starve it.
- weak fairness on `HandleBlock`.

The clock gets no fairness: no property needs time to pass.

The wallet's answer to `sendTx` gets no fairness: the code itself says it
may never come. Dropping a tx, and the user's choices, get no fairness
either.

The weak fairness of `ProcessPendingTxs(FALSE)` is written out as
`[]<>~ProcessPendingTxsChanges(FALSE) \/ []<><<ProcessPendingTxs(FALSE)>>_vars`.
`ProcessPendingTxsChanges` is exactly `ENABLED <<ProcessPendingTxs(FALSE)>>_vars`:
the call is possible when idle, and it changes the state when interrupted,
when the queues differ, or when it publishes. The rewrite is needed because
TLC does not cache LET values while evaluating ENABLED, which makes the
recursive selection exponential there.

**Bounds.** The bounds are small on purpose: 3 txs, 2 slots, 1 asset,
1 bridge call, clock up to 4, one failure, one interrupt. Every scenario
fills at least one limit: slots, asset set, bridge calls or gas. With 3 txs
there can be a parent, a discarded sibling and a child, and a batch can be
published while a third tx waits. All actions and all disjuncts of `Next`
fire in `coordinator_safety`.

In the deposit runs, one controller with every wallet and asset kind and
a starting pending deposit of 0-3 reaches every path of every method:
- throws for nothing required;
- enough allowance and insufficient allowance;
- permit, non-standard permit and plain deposits;
- the contract-wallet loop ending by hash, by error or by chain data;
- a dropped tx and a timeout.

The clock runs to 4 minutes in `deposit_safety`, short of the 5-minute
permit lifetime, so it interleaves with every step without a permit
expiring: the passing runs ask about amounts, and expiry is the one
question of `expired_permit_args`, whose clock runs to 6. Deadlines given
by the caller are not enumerated; they only move the expiry.

All actions and disjuncts fire in `deposit_safety`. The violation runs add
a second actor: an earlier unsettled deposit of 1, or a second flow. That
is the least each hazard needs.

The refinement is checked only with one flow and no earlier deposit.
With an earlier deposit, finding 4 already shows an uncovered proof being
sent; that is exactly what `Propose` forbids.

`PreSort` is checked up to 7 txs. That covers runs of each type, both run
directions and insertion into both halves; V8 uses this algorithm up to
63. The validator is checked over all pools of 4 txs with 2 keys, values
up to 2, pending deposits up to 3, spent flags and links to any earlier
note. That is enough for a cap reached exactly, a rejection cascading
twice, and an accepted deposit after a rejected one.

## What is not modelled, and why

- Logging (`printRollupState`) and metrics (lines 335-337, 406-419) are left
  out: they change no state the coordinator reads.
- Proof contents, merkle roots, the DeFi interaction notes and the
  aggregation arguments are not modelled. The collaborators are abstracted
  to "resolves" or "rejects".
- Pool maintenance outside the coordinator is not modelled: nullifier
  checks and removal of invalid txs. Published txs simply leave the pool.
- The coordinator model uses the stable claims-first partition for the
  sort at lines 102-104. The `operators` run shows that this is what V8 yields
  under 64 txs. V8's merging of runs for larger pools and other engines
  are not modelled.
- In the deposit flow:
  - permit nonces are not modelled: each flow signs at most one permit,
    and no other party spends the depositor's nonce. A deadline passed
    in by the caller is not enumerated; only the default one is.
  - the fee-paying proof that `send()` adds when `requireFeePayingTx` is
    set is not modelled. It is a payment, not a deposit, so it does not
    touch the pending deposit. `core`'s proof construction is not modelled
    either.
  - `core.awaitSettlement` is assumed to resolve when the tx settles and
    to throw when the validator deletes it.
- The rest of world state (trees, sync, rollup db) is not modelled.
- Of the AztecSdk facade only `createDepositController` is modelled, by
  the constructor it calls. The rest delegates to `core` and
  `blockchain`. Its `getUserPendingFunds` (lines 1100-1107) makes the
  same two reads as `getPendingFundsStatus` and so has the same hazard;
  its `depositFundsToContract` (1089-1094) deposits without checks.

## Plan for the next sittings

1. **Facade deposits.** `AztecSdk.depositFundsToContract` could become a
   third actor beside the controllers. It was tried as an environment
   step and breaks `NoDepositReverts` and `FlowTerminates` (see the note
   after the findings), but whether a depositor may deposit through the
   facade during a flow is not settled by the code or the spec, so no run
   keeps it.
2. **Larger instances.** The two-flow runs fix one wallet kind and one
   asset kind each; two controllers over every wallet and asset kind, and
   the refinement with an earlier deposit, are the next instances to try.

Everything else of the repository's source that changes state is modelled
(see *What is not modelled* for what is left out and why).
