--------------------------- MODULE RollupCoordinator ---------------------------
(***************************************************************************)
(* The rollup batching coordinator                                         *)
(* (src/falafel/src/pipeline_coordinator/rollup_coordinator.ts) together   *)
(* with the environment it runs in: clients submitting txs to the pending  *)
(* pool, the wall clock, the pipeline that calls processPendingTxs once    *)
(* per tick and builds a fresh coordinator after a publish or an           *)
(* interrupt, the proving and publishing collaborators (which may fail),   *)
(* and a caller of interrupt().                                            *)
(*                                                                         *)
(* JavaScript runs one continuation at a time, so every stretch of code    *)
(* between two awaits is one atomic action. processPendingTxs is           *)
(* synchronous from its start up to the first createRollup await: tx       *)
(* selection, the first checkpoint and the publish decision are one step.  *)
(***************************************************************************)
EXTENDS Integers, Sequences, FiniteSets, SequencesExt, BridgeTxQueue, PublishTimeManager

CONSTANTS
  TxId,                        \* 1..N: ids of the txs clients may submit, in submission order
  Bridge,                      \* bridgeCallData values that DeFi txs may carry
  NoBridge, NoLink,            \* model values: "no bridgeCallData", "backwardLink is 32 zero bytes"
  Scenarios,                   \* candidate tables [TxId -> tx record] (see TxRecord)
  NumInnerRollupTxs, NumOuterRollupProofs,
  MaxGasForRollup, MaxCallDataForRollup,
  MaxUnadjustedGas, MaxTxCallData,   \* feeResolver.getMaxUnadjustedGas / getMaxTxCallData
  NUM_BRIDGE_CALLS_PER_BLOCK, NUMBER_OF_ASSETS,
  FlushInputs,                 \* values the pipeline passes as `flush`
  MaxTime,                     \* the clock stops here; txs are submitted before it
  MaxFailures,                 \* collaborator failures not caused by an interrupt
  MaxInterrupts                \* interrupt() calls over the whole run

TxTypes == {"ACCOUNT", "TRANSFER", "WITHDRAW_HIGH_GAS", "DEFI_DEPOSIT", "DEFI_CLAIM"}
Commitments == TxId \X {1, 2}
\* A pending tx as the coordinator sees it: its type, fee asset and value,
\* the gas it pays above the minimum, its bridge (DEFI_DEPOSIT only) and
\* its backward link. Its note commitments are <<id, 1>> and <<id, 2>>.
TxRecord == [type : TxTypes, asset : Nat, fee : Nat, excess : Nat,
             bridge : Bridge \cup {NoBridge}, link : Commitments \cup {NoLink}]

ASSUME Scenarios \subseteq [TxId -> TxRecord]
ASSUME Configured \subseteq Bridge

TotalSlots == NumOuterRollupProofs * NumInnerRollupTxs
CoordinatorStates == {"BUILDING", "PUBLISHING", "INTERRUPTED"}

VARIABLES
  tx,            \* the table of txs of this run (fixed in Init)
  now,           \* wall clock, whole seconds
  submitted,     \* txs 1..submitted have been sent to the pool
  created,       \* created[id]: TxDao.created
  pending,       \* the pending-tx table, in creation order
  rollups,       \* the txs of every rollup published so far, in order
  state,         \* RollupCoordinator.state
  interrupted,   \* RollupCoordinator.interrupted
  processedTxs,  \* RollupCoordinator.processedTxs
  bridgeQueues,  \* RollupCoordinator.bridgeQueues: bridge -> queued tx ids
  pc,            \* where the current processPendingTxs call is suspended
  chunk,         \* inner rollups whose circuit input has been created
  batch,         \* the selection being proved and published
  intPc,         \* where the interrupt() call is suspended
  failures, interrupts

coordVars == <<state, interrupted, processedTxs, bridgeQueues, pc, chunk, batch, intPc>>
vars == <<tx, now, submitted, created, pending, rollups, coordVars, failures, interrupts>>

NoBatch == [txs |-> <<>>, gas |-> 0, callData |-> 0, bridges |-> <<>>,
            assets |-> {}, discarded |-> {}, queues |-> <<>>]

-----------------------------------------------------------------------------
(* Transaction selection: getNextTxsToRollup and the helpers it calls.     *)

NoteCommitments(id) == {<<id, 1>>, <<id, 2>>}

\* The pre-sort of getNextTxsToRollup: DEFI_CLAIM txs first, each group in
\* pool order (what Array.prototype.sort yields for this comparator).
SortClaimsFirst(s) ==
  SelectSeq(s, LAMBDA id : tx[id].type = "DEFI_CLAIM")
    \o SelectSeq(s, LAMBDA id : tx[id].type # "DEFI_CLAIM")

\* initialiseBridgeQueues: an empty queue for every bridge. Queues of
\* bridges without a config are created lazily, also empty.
InitialiseBridgeQueues == [b \in Bridge |-> <<>>]

\* The timeout the queue of bridge b was built with.
QueueTimeout(to, b) == IF b \in DOMAIN to.bridge THEN {to.bridge[b].time} ELSE {}

\* Mutant: the gas limit is not checked, only the call data limit.
ValidateAndUpdateRollupResourcesNoGasCheck(acc, type) ==
  LET g  == acc.gas + TxGas[type] - BaseGas
      cd == acc.callData + TxCallData[type]
  IN IF cd > MaxCallDataForRollup
     THEN [ok |-> FALSE, acc |-> acc]
     ELSE [ok |-> TRUE, acc |-> [acc EXCEPT !.gas = g, !.callData = cd]]

\* validateAndUpdateRollupResources: reserve a tx's gas above the slot's
\* verification gas and its call data, unless that breaches a limit.
ValidateAndUpdateRollupResources(acc, type) ==
  LET g  == acc.gas + TxGas[type] - BaseGas
      cd == acc.callData + TxCallData[type]
  IN IF g > MaxGasForRollup \/ cd > MaxCallDataForRollup
     THEN [ok |-> FALSE, acc |-> acc]
     ELSE [ok |-> TRUE, acc |-> [acc EXCEPT !.gas = g, !.callData = cd]]

\* Mutant: only the first note commitment is remembered.
DiscardTxFirstNoteOnly(acc, id) == [acc EXCEPT !.discarded = @ \cup {<<id, 1>>}]

\* discardTx: remember the tx's note commitments so its descendants go too.
DiscardTx(acc, id) == [acc EXCEPT !.discarded = @ \cup NoteCommitments(id)]

\* addTx (non-DeFi): select it, recording its asset when fee paying.
AddTx(acc, id) ==
  [acc EXCEPT !.txs = Append(@, id),
              !.assets = IF tx[id].asset \in FeePayingAssets THEN @ \cup {tx[id].asset} ELSE @]

\* addTxs (DeFi): select each tx, record its asset when it pays a fee in a
\* fee-paying asset, and record the bridge once.
AddDefiTxs(acc, ids, b) ==
  [acc EXCEPT !.txs = @ \o ids,
              !.assets = @ \cup {tx[i].asset : i \in {j \in ToSet(ids) : UsesAssetSlot(tx[j])}},
              !.bridges = IF ids # <<>> /\ ~\E k \in DOMAIN @ : @[k] = b THEN Append(@, b) ELSE @]

\* verifyResourceLimits(txs) of handleNewDefiTx for n txs of bridge b.
VerifyResourceLimits(acc, b, n) ==
  LET present == \E k \in DOMAIN acc.bridges : acc.bridges[k] = b
      g  == acc.gas + (IF present THEN 0 ELSE BridgeGas[b]) + n * DefiTxGas
      cd == acc.callData + n * TxCallData["DEFI_DEPOSIT"]
  IN [breach |-> g > MaxGasForRollup \/ cd > MaxCallDataForRollup, gas |-> g, callData |-> cd]

\* Mutant: the tx is added but its gas and call data are not reserved.
CheckAndAddTxNoReservation(acc, id) ==
  LET r == VerifyResourceLimits(acc, tx[id].bridge, 1)
  IN IF r.breach THEN acc ELSE AddDefiTxs(acc, <<id>>, tx[id].bridge)

\* checkAndAddTxs([rollupTx]): add the tx alone if the limits allow it.
CheckAndAddTx(acc, id) ==
  LET r == VerifyResourceLimits(acc, tx[id].bridge, 1)
  IN IF r.breach THEN acc
     ELSE [AddDefiTxs(acc, <<id>>, tx[id].bridge) EXCEPT !.gas = r.gas, !.callData = r.callData]

\* handleNewDefiTx: a DeFi deposit joins its bridge's batch, is skipped
\* (never discarded) when no bridge slot is left, goes in alone when
\* flushing or timed out, and otherwise is queued, after which the queue
\* may release a run of its txs.
HandleNewDefiTx(acc, id, flush, to) ==
  LET b == tx[id].bridge
  IN IF \E k \in DOMAIN acc.bridges : acc.bridges[k] = b THEN CheckAndAddTx(acc, id)
     ELSE IF Len(acc.bridges) = NUM_BRIDGE_CALLS_PER_BLOCK THEN acc
     ELSE IF flush THEN CheckAndAddTx(acc, id)
     ELSE IF TransactionHasTimedOut(QueueTimeout(to, b), created[id]) THEN CheckAndAddTx(acc, id)
     ELSE LET q == Append(acc.queues[b], id)
              r == TxsToRollup(q, tx, created, QueueTimeout(to, b), b,
                               TotalSlots - Len(acc.txs), acc.assets, NUMBER_OF_ASSETS,
                               MaxGasForRollup - acc.gas, MaxCallDataForRollup - acc.callData)
              a == AddDefiTxs([acc EXCEPT !.queues[b] = q], r.txs, b)
          IN [a EXCEPT !.gas = @ + r.gas, !.callData = @ + r.callData]

\* One iteration of the selection loop for the tx `id`.
ConsiderTx(acc, id, flush, to) ==
  LET t == tx[id]
  IN IF t.type = "ACCOUNT"
     THEN LET r == ValidateAndUpdateRollupResources(acc, "ACCOUNT")
          IN IF r.ok THEN [r.acc EXCEPT !.txs = Append(@, id)] ELSE acc
     ELSE IF /\ t.asset \in FeePayingAssets
             /\ t.asset \notin acc.assets
             /\ Cardinality(acc.assets) = NUMBER_OF_ASSETS
          THEN DiscardTx(acc, id)
     ELSE IF t.link # NoLink /\ t.link \in acc.discarded THEN DiscardTx(acc, id)
     ELSE IF t.type # "DEFI_DEPOSIT"
          THEN LET r == ValidateAndUpdateRollupResources(acc, t.type)
               IN IF r.ok THEN AddTx(r.acc, id) ELSE DiscardTx(acc, id)
     ELSE HandleNewDefiTx(acc, id, flush, to)

\* getNextTxsToRollup: walk the sorted pool until it or the slots run out.
GetNextTxsToRollup(pool, flush, to) ==
  LET RECURSIVE Loop(_, _)
      Loop(s, acc) ==
        IF s = <<>> \/ Len(acc.txs) >= TotalSlots THEN acc
        ELSE Loop(Tail(s), ConsiderTx(acc, Head(s), flush, to))
  IN Loop(SortClaimsFirst(pool),
          [NoBatch EXCEPT !.gas = TotalSlots * BaseGas, !.queues = InitialiseBridgeQueues])

-----------------------------------------------------------------------------
(* The publish decision of aggregateAndPublish.                            *)

\* The bridges of a tx sequence's DeFi deposits.
BridgesIn(t, ids) == {t[i].bridge : i \in {j \in ToSet(ids) : t[j].type = "DEFI_DEPOSIT"}}
BridgesOf(ids) == BridgesIn(tx, ids)

\* The gas and call data of a rollup of the txs ids of table t: a full
\* rollup's base gas, each tx's gas above the base, each bridge's gas.
RollupGas(t, ids) ==
  TotalSlots * BaseGas + MapThenSumSet(LAMBDA i : TxGas[t[i].type] - BaseGas, ToSet(ids))
    + MapThenSumSet(LAMBDA b : BridgeGas[b], BridgesIn(t, ids))
RollupCallData(t, ids) == MapThenSumSet(LAMBDA i : TxCallData[t[i].type], ToSet(ids))

\* profileRollup (rollup_profiler.ts, not in this repository; spec 4.5):
\* recomputed from the txs alone. gasBalance is the excess paid, less the
\* verification gas of the empty slots and each bridge's unpaid share.
ProfileRollup(ids) ==
  LET S == ToSet(ids)
      perBridge(b) == Cardinality({i \in S : tx[i].type = "DEFI_DEPOSIT" /\ tx[i].bridge = b})
      shortfall(b) == IF BridgeGas[b] > perBridge(b) * SingleBridgeTxGas[b]
                      THEN BridgeGas[b] - perBridge(b) * SingleBridgeTxGas[b] ELSE 0
  IN [totalTxs      |-> Len(ids),
      totalGas      |-> RollupGas(tx, ids),
      totalCallData |-> RollupCallData(tx, ids),
      gasBalance    |-> MapThenSumSet(LAMBDA i : tx[i].excess, S)
                          - (TotalSlots - Len(ids)) * BaseGas
                          - MapThenSumSet(shortfall, BridgesOf(ids)),
      earliestTx    |-> [b \in BridgesOf(ids) |->
                          Min({created[i] : i \in {j \in S : tx[j].bridge = b}})]]

\* Mutant: only bridge deadlines are checked, not the base one.
RollupHasDeadlinedBridgesOnly(ids, profile, to) ==
  /\ profile.totalTxs > 0
  /\ to.hasBase
  /\ \E b \in DOMAIN profile.earliestTx :
        b \in DOMAIN to.bridge /\ profile.earliestTx[b] < to.bridge[b].time

\* rollupHasDeadlined: some bridge's earliest tx predates that bridge's
\* timeout, or some non-DeFi tx predates the base timeout.
RollupHasDeadlined(ids, profile, to) ==
  /\ profile.totalTxs > 0
  /\ to.hasBase
  /\ \/ \E b \in DOMAIN profile.earliestTx :
           b \in DOMAIN to.bridge /\ profile.earliestTx[b] < to.bridge[b].time
     \/ \E k \in DOMAIN ids :
           tx[ids[k]].type # "DEFI_DEPOSIT" /\ created[ids[k]] < to.base.time

ShouldPublish(ids, flush, to) ==
  LET p == ProfileRollup(ids)
  IN \/ flush
     \/ p.gasBalance >= 0
     \/ RollupHasDeadlined(ids, p, to)
     \/ MaxGasForRollup - p.totalGas < MaxUnadjustedGas
     \/ MaxCallDataForRollup - p.totalCallData < MaxTxCallData
     \/ Len(ids) = TotalSlots

\* Mutant: the chunk count rounds up one too many for a full last chunk.
NumChunksOffByOne == Len(batch.txs) \div NumInnerRollupTxs + 1

NumChunks == (Len(batch.txs) + NumInnerRollupTxs - 1) \div NumInnerRollupTxs

-----------------------------------------------------------------------------
(* Actions of the coordinator.                                             *)

\* processPendingTxs(pendingTxs, flush) up to its first await: compute the
\* timeouts, rebuild the queues, select, checkpoint, and either return the
\* profile or record processedTxs and start creating the first inner rollup.
ProcessPendingTxs(flush) ==
  LET to  == LastTimeouts(now)
      sel == GetNextTxsToRollup(pending, flush, to)
  IN /\ pc = "idle"
     /\ bridgeQueues' = sel.queues
     /\ IF interrupted
        THEN /\ state' = "INTERRUPTED" /\ pc' = "stopped"
             /\ UNCHANGED <<processedTxs, batch>>
        ELSE IF sel.txs # <<>> /\ ShouldPublish(sel.txs, flush, to)
        THEN /\ processedTxs' = sel.txs /\ batch' = sel /\ pc' = "createRollup"
             /\ UNCHANGED state
        ELSE UNCHANGED <<state, processedTxs, batch, pc>>
     /\ UNCHANGED <<tx, now, submitted, created, pending, rollups, interrupted, chunk,
                    intPc, failures, interrupts>>

\* ENABLED <<ProcessPendingTxs(flush)>>_vars as a state predicate: the call
\* is possible when idle and changes the state when the coordinator is
\* interrupted, the queues it rebuilds differ, or it decides to publish.
\* (TLC does not cache LET values under ENABLED, which makes the recursive
\* selection exponential there; this predicate is evaluated normally.)
ProcessPendingTxsChanges(flush) ==
  LET to  == LastTimeouts(now)
      sel == GetNextTxsToRollup(pending, flush, to)
  IN /\ pc = "idle"
     /\ \/ interrupted
        \/ sel.queues # bridgeQueues
        \/ sel.txs # <<>> /\ ShouldPublish(sel.txs, flush, to)

\* An await of a collaborator throws: the processPendingTxs call rejects and
\* the pipeline will call it again. After interrupt() has reached a child,
\* that child's pending call may reject with an InterruptError.
AwaitFails(childInterrupted) ==
  /\ childInterrupted \/ failures < MaxFailures
  /\ failures' = IF childInterrupted THEN failures ELSE failures + 1
  /\ pc' = "idle" /\ chunk' = 0
  /\ UNCHANGED <<tx, now, submitted, created, pending, rollups, state, interrupted,
                 processedTxs, bridgeQueues, batch, intPc, interrupts>>

CreatorInterrupted == intPc \in {"creator", "aggregator", "returned"}
AggregatorInterrupted == intPc \in {"aggregator", "returned"}

\* rollupCreator.createRollup for the next chunk resolves (they run in
\* sequence, as each updates the merkle trees); after the last one the
\* inner proofs are all started.
CreateRollup ==
  /\ pc = "createRollup"
  /\ \/ /\ chunk' = chunk + 1
        /\ pc' = IF chunk + 1 = NumChunks THEN "createProofs" ELSE "createRollup"
        /\ UNCHANGED <<tx, now, submitted, created, pending, rollups, state, interrupted,
                       processedTxs, bridgeQueues, batch, intPc, failures, interrupts>>
     \/ AwaitFails(CreatorInterrupted)

\* Promise.all over rollupCreator.create resolves; aggregation starts.
CreateProofs ==
  /\ pc = "createProofs"
  /\ \/ /\ pc' = "aggregate"
        /\ UNCHANGED <<tx, now, submitted, created, pending, rollups, state, interrupted,
                       processedTxs, bridgeQueues, chunk, batch, intPc, failures, interrupts>>
     \/ AwaitFails(CreatorInterrupted)

\* Mutant: the checkpoint before publishing is missing.
AggregateAndCheckpointNoCheck ==
  /\ pc = "aggregate"
  /\ \/ /\ state' = "PUBLISHING" /\ pc' = "publishRollup"
        /\ UNCHANGED <<tx, now, submitted, created, pending, rollups, interrupted,
                       processedTxs, bridgeQueues, chunk, batch, intPc, failures, interrupts>>
     \/ AwaitFails(AggregatorInterrupted)

\* aggregateRollupProofs resolves and checkpointAndPublish runs up to the
\* publisher's await: checkpoint, then state := PUBLISHING.
AggregateAndCheckpoint ==
  /\ pc = "aggregate"
  /\ \/ /\ IF interrupted
           THEN state' = "INTERRUPTED" /\ pc' = "stopped"
           ELSE state' = "PUBLISHING" /\ pc' = "publishRollup"
        /\ UNCHANGED <<tx, now, submitted, created, pending, rollups, interrupted,
                       processedTxs, bridgeQueues, chunk, batch, intPc, failures, interrupts>>
     \/ AwaitFails(AggregatorInterrupted)

\* rollupPublisher.publishRollup resolves. When accepted, the rollup is on
\* chain and this coordinator's work is done; when not (or when it
\* throws, which leaves the same state), the pipeline calls
\* processPendingTxs again.
PublishRollupReturns ==
  /\ pc = "publishRollup"
  /\ \/ /\ rollups' = Append(rollups, batch.txs)
        /\ pc' = "done"
        /\ UNCHANGED <<failures>>
     \/ /\ failures < MaxFailures /\ failures' = failures + 1
        /\ pc' = "idle" /\ UNCHANGED <<rollups>>
  /\ chunk' = 0
  /\ UNCHANGED <<tx, now, submitted, created, pending, state, interrupted, processedTxs,
                 bridgeQueues, batch, intPc, interrupts>>

\* interrupt(shouldThrowIfFailToStop) up to its first await: throw when asked
\* to and not BUILDING; otherwise raise the flag and interrupt the creator.
Interrupt(shouldThrow) ==
  /\ intPc = "none" /\ interrupts < MaxInterrupts
  /\ interrupts' = interrupts + 1
  /\ IF shouldThrow /\ state # "BUILDING"
     THEN intPc' = "threw" /\ UNCHANGED interrupted
     ELSE intPc' = "creator" /\ interrupted' = TRUE
  /\ UNCHANGED <<tx, now, submitted, created, pending, rollups, state, processedTxs,
                 bridgeQueues, pc, chunk, batch, failures>>

\* rollupCreator.interrupt() resolves; rollupAggregator.interrupt() starts.
InterruptCreatorReturns ==
  /\ intPc = "creator" /\ intPc' = "aggregator"
  /\ UNCHANGED <<tx, now, submitted, created, pending, rollups, state, interrupted,
                 processedTxs, bridgeQueues, pc, chunk, batch, failures, interrupts>>

\* rollupAggregator.interrupt() resolves; processedTxs is cleared.
InterruptAggregatorReturns ==
  /\ intPc = "aggregator" /\ intPc' = "returned" /\ processedTxs' = <<>>
  /\ UNCHANGED <<tx, now, submitted, created, pending, rollups, state, interrupted,
                 bridgeQueues, pc, chunk, batch, failures, interrupts>>

-----------------------------------------------------------------------------
(* The environment: clients, clock and the pipeline's coordinator lifecycle. *)

\* The txs of every rollup published so far.
Settled == UNION {ToSet(rollups[r]) : r \in DOMAIN rollups}

\* A client submits the next tx; it is created now.
SubmitTx ==
  /\ submitted < Cardinality(TxId) /\ now < MaxTime
  /\ submitted' = submitted + 1
  /\ created' = [created EXCEPT ![submitted + 1] = now]
  /\ pending' = Append(pending, submitted + 1)
  /\ UNCHANGED <<tx, now, rollups, coordVars, failures, interrupts>>

AdvanceClock ==
  /\ now < MaxTime /\ now' = now + 1
  /\ UNCHANGED <<tx, submitted, created, pending, rollups, coordVars, failures, interrupts>>

InitCoordinator ==
  /\ state = "BUILDING" /\ interrupted = FALSE /\ processedTxs = <<>>
  /\ bridgeQueues = [b \in Bridge |-> <<>>] /\ pc = "idle" /\ chunk = 0
  /\ batch = NoBatch /\ intPc = "none"

\* The pipeline builds a new coordinator once the old one has published or
\* stopped on an interrupt and any interrupt() call on it has returned. The
\* pending txs it reads from the database for the next tick no longer hold
\* the published ones (spec 4.4: P is freshly read each tick).
NewCoordinator ==
  /\ pc \in {"done", "stopped"}
  /\ intPc \in {"none", "returned", "threw"}
  /\ state' = "BUILDING" /\ interrupted' = FALSE /\ processedTxs' = <<>>
  /\ bridgeQueues' = [b \in Bridge |-> <<>>] /\ pc' = "idle" /\ chunk' = 0
  /\ batch' = NoBatch /\ intPc' = "none"
  /\ pending' = SelectSeq(pending, LAMBDA id : id \notin Settled)
  /\ UNCHANGED <<tx, now, submitted, created, rollups, failures, interrupts>>

Init ==
  /\ tx \in Scenarios
  /\ now = 0 /\ submitted = 0 /\ created = [i \in TxId |-> 0]
  /\ pending = <<>> /\ rollups = <<>>
  /\ InitCoordinator
  /\ failures = 0 /\ interrupts = 0

Next ==
  \/ \E flush \in FlushInputs : ProcessPendingTxs(flush)
  \/ CreateRollup \/ CreateProofs \/ AggregateAndCheckpoint \/ PublishRollupReturns
  \/ \E s \in BOOLEAN : Interrupt(s)
  \/ InterruptCreatorReturns \/ InterruptAggregatorReturns
  \/ SubmitTx \/ AdvanceClock \/ NewCoordinator

\* The pipeline keeps polling without flushing (weak fairness of
\* ProcessPendingTxs(FALSE), written out with ProcessPendingTxsChanges), collaborators and the clock
\* keep answering, and the pipeline replaces a finished coordinator.
Fairness ==
  /\ ([]<>~ProcessPendingTxsChanges(FALSE) \/ []<><<ProcessPendingTxs(FALSE)>>_vars)
  /\ WF_vars(CreateRollup) /\ WF_vars(CreateProofs)
  /\ WF_vars(AggregateAndCheckpoint) /\ WF_vars(PublishRollupReturns)
  /\ WF_vars(InterruptCreatorReturns) /\ WF_vars(InterruptAggregatorReturns)
  /\ WF_vars(AdvanceClock) /\ WF_vars(NewCoordinator)

Spec == Init /\ [][Next]_vars /\ Fairness

-----------------------------------------------------------------------------
(* Properties.                                                             *)

InFlight == pc \in {"createRollup", "createProofs", "aggregate", "publishRollup"}

TypeOK ==
  /\ tx \in Scenarios
  /\ now \in 0..MaxTime /\ submitted \in 0..Cardinality(TxId)
  /\ created \in [TxId -> 0..MaxTime]
  /\ pending \in Seq(TxId) /\ rollups \in Seq(Seq(TxId))
  /\ state \in CoordinatorStates /\ interrupted \in BOOLEAN
  /\ processedTxs \in Seq(TxId)
  /\ bridgeQueues \in [Bridge -> Seq(TxId)]
  /\ pc \in {"idle", "createRollup", "createProofs", "aggregate", "publishRollup", "done", "stopped"}
  /\ chunk \in 0..TotalSlots
  /\ intPc \in {"none", "creator", "aggregator", "returned", "threw"}
  /\ failures \in 0..MaxFailures /\ interrupts \in 0..MaxInterrupts

\* P1/I1-I3 and the rollup's shape: a batch being proved never has more txs
\* than slots, more bridges or assets than the rollup proof can carry, or
\* more gas or call data than the limits; and every DeFi tx's bridge and
\* every fee a tx pays is in the bridge and asset lists handed to the
\* rollup creator (getNextTxsToRollup, handleNewDefiTx, bridge queue).
BatchFitsRollup ==
  InFlight =>
    /\ Len(batch.txs) <= TotalSlots
    /\ Len(batch.bridges) <= NUM_BRIDGE_CALLS_PER_BLOCK
    /\ Cardinality(batch.assets) <= NUMBER_OF_ASSETS
    /\ batch.gas <= MaxGasForRollup /\ batch.callData <= MaxCallDataForRollup
    /\ BridgesOf(batch.txs) \subseteq ToSet(batch.bridges)
    /\ \A k \in DOMAIN batch.txs : UsesAssetSlot(tx[batch.txs[k]]) => tx[batch.txs[k]].asset \in batch.assets

\* I4: no tx of a batch chains off a note of a pending tx that the same
\* selection left out, when that parent is a tx the loop discards rather
\* than skips: any tx other than an account tx (skipped without discardTx)
\* or a DeFi deposit (queued or skipped; see ChainedParentIncluded). The
\* parent is judged from the pool, not from the discarded-commitment list
\* the code keeps (discardTx and the chain check of getNextTxsToRollup).
NoChainOffDiscarded ==
  InFlight =>
    \A k \in DOMAIN batch.txs :
      LET l == tx[batch.txs[k]].link
      IN l # NoLink =>
           ~ /\ l[1] \in ToSet(pending) \ ToSet(batch.txs)
             /\ tx[l[1]].type \notin {"ACCOUNT", "DEFI_DEPOSIT"}

\* The gas and call data getNextTxsToRollup reserved while admitting txs
\* equal what profileRollup recomputes from the chosen txs, which is what
\* decides outOfGas and is sent to the publisher as the L1 gas estimate:
\* each bridge's fixed gas is charged exactly once.
GasAccountingExact ==
  InFlight =>
    LET p == ProfileRollup(batch.txs)
    IN batch.gas = p.totalGas /\ batch.callData = p.totalCallData

\* Once interrupt() has been called without throwing, no publishRollup call
\* is started (the checkpoint in checkpointAndPublish).
PublishOnlyIfNotInterrupted ==
  [][(pc' = "publishRollup" /\ pc # "publishRollup") => intPc \in {"none", "threw"}]_vars

\* A submitted tx that a deadline applies to (any non-DeFi tx, and DeFi txs
\* of bridges with a rollupFrequency >= 1) is eventually in a published
\* rollup (rollupHasDeadlined and transactionHasTimedOut).
DeadlinedTxsEventuallyPublished ==
  \A id \in TxId :
    (tx[id].type # "DEFI_DEPOSIT" \/ tx[id].bridge \in TimedBridges)
      => ((id <= submitted) ~> (id \in Settled))

\* P2: every tx of a batch that chains off a note has its parent earlier in
\* the same batch or in an already published rollup.
ChainedParentIncluded ==
  InFlight =>
    \A k \in DOMAIN batch.txs :
      LET l == tx[batch.txs[k]].link
      IN l # NoLink =>
           \/ \E j \in 1..(k - 1) : l \in NoteCommitments(batch.txs[j])
           \/ \E id \in Settled : l \in NoteCommitments(id)

\* Spec 4.6: interrupt() once the coordinator is PUBLISHING has no effect
\* (unless it throws); in particular the txs being published stay visible
\* through getProcessedTxs.
InterruptWhilePublishingIsNoOp ==
  [][(state = "PUBLISHING" /\ pc = "publishRollup") => processedTxs' = processedTxs]_vars


\* processedTxs ("Track txs currently being processed", rollup_coordinator
\* .ts:364) lists txs only while a rollup of them is being created, proven
\* or published, or once it has been published.
ProcessedTxsCurrent ==
  processedTxs # <<>> => pc \in {"createRollup", "createProofs", "aggregate", "publishRollup", "done"}


-----------------------------------------------------------------------------
(* Refinement: the coordinator, with its interrupts, failures and fresh    *)
(* coordinators, publishes only what RollupBatching allows. The abstract   *)
(* pool is the set of pending txs not yet published (the database drops   *)
(* them before the next tick), its rollups are the published ones.        *)

\* The limits of one rollup of table t, recomputed from its txs as
\* profileRollup does.
RollupFits(t, r) ==
  /\ Len(r) <= TotalSlots
  /\ Cardinality(BridgesIn(t, r)) <= NUM_BRIDGE_CALLS_PER_BLOCK
  /\ Cardinality({t[i].asset : i \in {j \in ToSet(r) : UsesAssetSlot(t[j])}}) <= NUMBER_OF_ASSETS
  /\ RollupGas(t, r) <= MaxGasForRollup /\ RollupCallData(t, r) <= MaxCallDataForRollup

\* The parent a tx must not be published before: the owner of the note it
\* chains off, unless that parent is an account tx or a DeFi deposit,
\* which the selection skips or queues without discarding their notes
\* (finding chain_off_queued_defi).
MustFollow(t, id) ==
  IF t[id].link # NoLink /\ t[t[id].link[1]].type \notin {"ACCOUNT", "DEFI_DEPOSIT"}
  THEN {t[id].link[1]} ELSE {}

Batching == INSTANCE RollupBatching
              WITH Tables <- Scenarios, Fits <- RollupFits, Guards <- MustFollow,
                   table <- tx, pool <- ToSet(pending) \ Settled, published <- rollups

\* Whatever interleaving of ticks, collaborator answers and failures,
\* interrupts and fresh coordinators occurs, every published rollup is a
\* RollupBatching rollup: distinct pending txs within the limits, parents
\* first, each tx published once (processPendingTxs through
\* publishRollup, and the pipeline's removal of published txs).
ImplementsBatching == Batching!Spec

=============================================================================
