--------------------------- MODULE DepositController ---------------------------
(***************************************************************************)
(* The SDK's DepositController (src/sdk/src/controllers/deposit_controller *)
(* .ts) driven by a user who follows the documented call order, against   *)
(* an abstract L1 chain (the depositor's pending deposit, its token        *)
(* allowance to the rollup contract, approved proof hashes and a mempool)  *)
(* and falafel's pending pool, which is validated on every settled block   *)
(* by the block validator (module BlockValidator).                         *)
(*                                                                         *)
(* Every controller belongs to the same depositor and asset. Every stretch *)
(* of a method between two awaits that read or write shared state is one  *)
(* action; awaits on constants (isContract, getLocalStatus) are merged     *)
(* with the step that follows them. A tx hash is abstracted to whether it *)
(* is defined; a permit signature to the amount it was signed for.       *)
(***************************************************************************)
EXTENDS Integers, Sequences, FiniteSets, SequencesExt, BlockValidator

CONSTANTS
  Ctrl,          \* the controllers (one deposit flow each)
  Args,          \* the arguments createDepositController may be given:
                 \* [value, fee, feeSameAsset, feePayer] (fee.assetId = assetId?
                 \* a FeePayer passed?)
  Prior,         \* ids of deposit txs of the depositor already in falafel's pool
  PriorValue,    \* [Prior -> Nat]
  InitPending,   \* possible on-chain pending deposits of the depositor at start
  Wallets,       \* subset of {"EOA", "CONTRACT"}: what isContract(depositor) may be
  Assets,        \* subset of {"ETH", "ERC20", "PERMIT", "DAI"}: the asset and its permit
                 \* support; DAI is a token with a non-standard permit
  TimeoutGiven,  \* whether the user passes a timeout to the await* methods
  MaxDrops,      \* how many L1 txs may be dropped from the mempool
  PermitLifetime,\* minutes from signing to a permit's default deadline (5)
  MaxMinutes     \* how far the clock may run

VARIABLES
  \* chain
  pd,              \* getUserPendingDeposit(asset, depositor)
  allowance,       \* asset.allowance(depositor, rollupContract)
  approvedProofs,  \* controllers whose proof hash is approved on chain
  reverts,         \* controllers a deposit tx of which was mined and reverted
  l1,              \* broadcast L1 txs not yet mined: [from, op, value, permit]
  drops,
  now,             \* the time, in minutes, of both Date.now() and the latest block
  \* falafel
  pool,            \* pending deposit txs, in insertion order (BlockValidator records)
  onChain,         \* ids of pool txs whose rollup is mined but not yet handled by falafel
  block,           \* a mined rollup block falafel has not handled yet
  settled,         \* ids settled
  rejected,        \* ids deleted by the block validator
  \* the depositor
  wallet, asset,
  \* each controller
  m,               \* the method running or last returned
  pc,              \* its step, "returned", or "failed" (a throw)
  todo,            \* the methods the user's script still calls, in order
  st,              \* this.pendingFundsStatus
  loc,             \* the pendingFundsStatus local of the running method
  rd,              \* pendingDeposit read by the first await of getPendingFundsStatus
  alw,             \* allowance local of approve / depositFundsToContract
  bg,              \* txHash/txError of the background sendTx of sendTransactionAndCheckOnchainData
  proof,           \* "none", "created" (proofOutput) or "signed" (proofOutput.signature)
  args             \* the constructor's arguments

chainVars == <<pd, allowance, approvedProofs, reverts, l1, drops, now>>
poolVars == <<pool, onChain, block, settled, rejected>>
ctrlVars == <<m, pc, todo, st, loc, rd, alw, bg, proof, args>>
vars == <<chainVars, poolVars, wallet, asset, ctrlVars>>

TheKey == "key"       \* the single (asset, depositor) pair
NoLink == "none"

\* A deposit proof as the pool holds it.
DepositTx(id, v) ==
  [id |-> id, kind |-> "DEPOSIT", key |-> TheKey, value |-> v, spent |-> FALSE,
   link |-> NoLink, note1 |-> <<id, 1>>, note2 |-> <<id, 2>>]

PoolIds == {pool[i].id : i \in DOMAIN pool}

\* isProofApproved: the chain's approval status of the proof hash.
IsProofApproved(c) == c \in approvedProofs

\* The initial pendingFundsStatus; absent optional fields are FALSE.
NoStatus ==
  [pendingDeposit |-> 0, pendingFunds |-> 0, requiredFunds |-> 0,
   permitArgs |-> 0, permitDeadline |-> 0, approveTxHash |-> FALSE, approvedFromContractWallet |-> FALSE,
   txHash |-> FALSE, depositedFromContractWallet |-> FALSE,
   approveProofTxHash |-> FALSE, proofApprovedFromContractWallet |-> FALSE]

Methods == {"constructor", "getRequiredFunds", "approve", "awaitApprove", "depositFundsToContract",
            "depositFundsToContractWithNonStandardPermit",
            "awaitDepositFundsToContract", "createProof", "sign", "approveProof",
            "awaitApproveProof", "send", "awaitSettlement"}

\* The methods that start with getPendingFundsStatus.
FundsMethods == {"approve", "depositFundsToContract", "depositFundsToContractWithNonStandardPermit"}

\* uint256's maximum, the allowance a non-standard (DAI) permit grants and
\* which its transferFrom never decrements; above every value here.
MaxUint == 1000

---------------------------------------------------------------------------
(* The chain and falafel.                                                  *)

\* An L1 tx of controller c; permit is the amount a permit deposit's
\* signature was signed for and deadline its deadline (0 for other txs).
L1Tx(c, op, value, permit, deadline) ==
  [from |-> c, op |-> op, value |-> value, permit |-> permit, deadline |-> deadline]

PermitOps == {"depositPermit", "depositPermitNonStandard"}

\* createPermitArgs / createPermitArgsNonStandard: the default deadline.
PermitDeadline == now + PermitLifetime

\* A mined L1 tx. An ERC20 deposit reverts without allowance; a permit
\* deposit reverts unless its signature was signed for the value it
\* deposits, else sets the allowance to the value and transfers it; a
\* contract wallet's deposit carries its proof hash, approving the proof.
Mine(t) ==
  LET ok == /\ t.op # "deposit" \/ asset = "ETH" \/ allowance >= t.value
            /\ t.op # "depositPermit" \/ t.permit = t.value
            /\ t.op \notin PermitOps \/ now <= t.deadline
  IN /\ l1' = l1 \ {t}
     /\ pd' = IF ok /\ t.op # "approve" /\ t.op # "approveProof" THEN pd + t.value ELSE pd
     /\ allowance' = CASE t.op = "approve" -> t.value
                       [] t.op = "deposit" /\ ok /\ asset # "ETH" /\ allowance # MaxUint
                            -> allowance - t.value
                       [] t.op = "depositPermit" /\ ok -> 0
                       [] t.op = "depositPermitNonStandard" /\ ok -> MaxUint
                       [] OTHER -> allowance
     /\ approvedProofs' =
          IF \/ t.op = "approveProof"
             \/ t.op = "deposit" /\ ok /\ wallet = "CONTRACT"
          THEN approvedProofs \cup {t.from} ELSE approvedProofs
     /\ reverts' = IF ok THEN reverts ELSE reverts \cup {t.from}
     /\ UNCHANGED <<drops, poolVars, wallet, asset, ctrlVars, now>>

\* A broadcast tx that is never mined (replaced, or lost by the provider).
Drop(t) ==
  /\ drops < MaxDrops
  /\ l1' = l1 \ {t}
  /\ drops' = drops + 1
  /\ UNCHANGED <<pd, allowance, approvedProofs, reverts, poolVars, wallet, asset, ctrlVars, now>>

\* A minute passes.
Tick ==
  /\ now < MaxMinutes
  /\ now' = now + 1
  /\ UNCHANGED <<pd, allowance, approvedProofs, reverts, l1, drops, poolVars, wallet, asset, ctrlVars>>

\* A rollup holding the pool txs S (maybe none of the depositor's) is
\* mined: the rollup contract decrements the pending deposit of each
\* deposit (and reverts if it cannot).
RollupMined(S) ==
  /\ \A i \in S : pool[i].id \notin onChain
  /\ MapThenSumSet(LAMBDA i : pool[i].value, S) <= pd
  /\ pd' = pd - MapThenSumSet(LAMBDA i : pool[i].value, S)
  /\ onChain' = onChain \cup {pool[i].id : i \in S}
  /\ block' = TRUE
  /\ UNCHANGED <<allowance, approvedProofs, reverts, l1, drops, pool, settled, rejected, wallet, asset, ctrlVars, now>>

\* Falafel handles the settled block: the settled txs leave the pool, then
\* the block validator walks what remains against the pending deposit.
HandleBlock ==
  LET rest == SelectSeq(pool, LAMBDA t : t.id \notin onChain)
      out == RejectedTxs(rest, [k \in {TheKey} |-> pd], {TheKey}, NoLink)
      outIds == {rest[i].id : i \in out}
  IN /\ block
     /\ settled' = settled \cup onChain
     /\ rejected' = rejected \cup outIds
     /\ pool' = SelectSeq(rest, LAMBDA t : t.id \notin outIds)
     /\ onChain' = {}
     /\ block' = FALSE
     /\ UNCHANGED <<chainVars, wallet, asset, ctrlVars>>

---------------------------------------------------------------------------
Goto(c, to) == pc' = [pc EXCEPT ![c] = to]
Fail(c) == Goto(c, "failed")

---------------------------------------------------------------------------
(* The constructor, called by AztecSdk.createDepositController. Every      *)
(* asset here is one blockchain.getAsset knows.                            *)

\* publicInput.value: the deposit value plus the fee when paid in the same asset.
PublicValue(a) == a.value + (IF a.feeSameAsset THEN a.fee ELSE 0)

\* A separate fee-paying proof: a fee in another asset, or a fee payer given.
RequireFeePayingTx(a) == a.fee # 0 /\ (~a.feeSameAsset \/ a.feePayer)

\* Throws on a zero deposit and zero fee, and on a fee-paying proof without
\* a fee payer; the user's first call is then getRequiredFunds.
Construct(c) ==
  LET a == args[c]
  IN /\ pc[c] = "new"
     /\ \/ a.value = 0 /\ a.fee = 0 /\ Fail(c) /\ UNCHANGED todo
        \/ (a.value # 0 \/ a.fee # 0) /\ RequireFeePayingTx(a) /\ ~a.feePayer
           /\ Fail(c) /\ UNCHANGED todo
        \/ (a.value # 0 \/ a.fee # 0) /\ ~(RequireFeePayingTx(a) /\ ~a.feePayer)
           /\ todo' = [todo EXCEPT ![c] = <<"getRequiredFunds">>]
           /\ Goto(c, "returned")
     /\ UNCHANGED <<chainVars, poolVars, wallet, asset, m, st, loc, rd, alw, bg, proof, args>>

---------------------------------------------------------------------------
(* The user's script: after getRequiredFunds, the calls of the SDK's       *)
(* documented deposit flow, in order. A contract wallet creates its proof *)
(* first, since its deposit tx carries the proof hash (getProofHash).      *)

Funding ==
  LET direct == <<"depositFundsToContract", "awaitDepositFundsToContract">>
  IN {direct}
     \cup (IF asset = "ETH" THEN {} ELSE {<<"approve", "awaitApprove">> \o direct, <<"approve">> \o direct})
     \cup (IF asset = "DAI" THEN {<<"depositFundsToContractWithNonStandardPermit", "awaitDepositFundsToContract">>} ELSE {})

Scripts(required) ==
  IF wallet = "EOA"
  THEN {f \o <<"createProof", "sign", "send", "awaitSettlement">> :
          f \in IF required > 0 THEN Funding ELSE {<<>>}}
  ELSE {<<"createProof">> \o f \o <<"send", "awaitSettlement">> :
          f \in IF required > 0 THEN Funding ELSE {<<"approveProof", "awaitApproveProof">>}}

\* The user calls the next method of the script once the last one returned.
Call(c) ==
  /\ pc[c] = "returned"
  /\ todo[c] # <<>>
  /\ m' = [m EXCEPT ![c] = Head(todo[c])]
  /\ todo' = [todo EXCEPT ![c] = Tail(todo[c])]
  /\ pc' = [pc EXCEPT ![c] = IF Head(todo[c]) \in FundsMethods \cup {"getRequiredFunds"}
                               THEN "gpfs.pd" ELSE "call"]
  /\ UNCHANGED <<chainVars, poolVars, wallet, asset, st, loc, rd, alw, bg, proof, args>>

---------------------------------------------------------------------------
(* getPendingFundsStatus: two reads, the chain's pending deposit and then *)
(* falafel's pending deposit txs, with anything happening in between.     *)

ReadUserPendingDeposit(c) ==
  /\ pc[c] = "gpfs.pd"
  /\ rd' = [rd EXCEPT ![c] = pd]
  /\ Goto(c, "gpfs.txs")
  /\ UNCHANGED <<chainVars, poolVars, wallet, asset, m, todo, st, loc, alw, bg, proof, args>>

\* Mutant: one unit short of what the proof spends.
RequiredFundsShort(pendingFunds, value) ==
  IF pendingFunds < value THEN value - pendingFunds - 1 ELSE 0

\* Mutant: the guard against funds already sufficient is dropped.
RequiredFundsUnguarded(pendingFunds, value) == value - pendingFunds

RequiredFunds(pendingFunds, value) ==
  IF pendingFunds < value THEN value - pendingFunds ELSE 0

GetPendingFundsStatus(c) ==
  LET unsettledDeposit == MapThenSumSet(LAMBDA i : pool[i].value, DOMAIN pool)
      pendingFunds == rd[c] - unsettledDeposit
      requiredFunds == RequiredFunds(pendingFunds, PublicValue(args[c]))
  IN /\ pc[c] = "gpfs.txs"
     /\ loc' = [loc EXCEPT ![c] = [st[c] EXCEPT !.pendingDeposit = rd[c],
                                               !.pendingFunds = pendingFunds,
                                               !.requiredFunds = requiredFunds]]
     /\ Goto(c, "gpfs.done")
     /\ UNCHANGED <<chainVars, poolVars, wallet, asset, m, todo, st, rd, alw, bg, proof, args>>

\* getRequiredFunds returns; the user picks the script its result calls for.
GetRequiredFunds(c) ==
  /\ pc[c] = "gpfs.done" /\ m[c] = "getRequiredFunds"
  /\ \E s \in Scripts(loc[c].requiredFunds) : todo' = [todo EXCEPT ![c] = s]
  /\ Goto(c, "returned")
  /\ UNCHANGED <<chainVars, poolVars, wallet, asset, m, st, loc, rd, alw, bg, proof, args>>

\* approve and the deposits throw when nothing is required; an ETH deposit
\* takes the allowance to be the value without reading it; the
\* non-standard permit flow throws for a contract wallet.
CheckRequiredFunds(c) ==
  LET value == loc[c].requiredFunds
      contractPermit == m[c] = "depositFundsToContractWithNonStandardPermit" /\ wallet = "CONTRACT"
  IN /\ pc[c] = "gpfs.done" /\ m[c] \in FundsMethods
     /\ \/ value = 0 /\ Fail(c) /\ UNCHANGED alw
        \/ value > 0 /\ contractPermit /\ Fail(c) /\ UNCHANGED alw
        \/ value > 0 /\ m[c] = "depositFundsToContract" /\ asset = "ETH"
           /\ alw' = [alw EXCEPT ![c] = value] /\ Goto(c, "deposit.send")
        \/ value > 0 /\ ~contractPermit /\ (m[c] # "depositFundsToContract" \/ asset # "ETH")
           /\ Goto(c, IF m[c] = "approve" THEN "approve.allowance" ELSE "deposit.allowance")
           /\ UNCHANGED alw
     /\ UNCHANGED <<chainVars, poolVars, wallet, asset, m, todo, st, loc, rd, bg, proof, args>>

---------------------------------------------------------------------------
(* Sending an L1 tx: an EOA awaits the provider's hash (or a rejection);  *)
(* a contract wallet goes through sendTransactionAndCheckOnchainData.     *)

PermitSupport == asset = "PERMIT" /\ wallet = "EOA"

\* The fields a method records after its tx is sent.
StatusAfterSend(c, hash) ==
  LET isContract == wallet = "CONTRACT"
  IN CASE m[c] = "approve" ->
            [loc[c] EXCEPT !.approvedFromContractWallet = isContract /\ ~hash, !.approveTxHash = hash]
       [] m[c] = "depositFundsToContract" ->
            [loc[c] EXCEPT !.depositedFromContractWallet = isContract /\ ~hash, !.txHash = hash]
       [] m[c] = "depositFundsToContractWithNonStandardPermit" ->
            [loc[c] EXCEPT !.txHash = hash]
       [] m[c] = "approveProof" ->
            [st[c] EXCEPT !.proofApprovedFromContractWallet = isContract /\ ~hash,
                          !.approveProofTxHash = hash]

SendTx(c, t) ==
  \/ /\ wallet = "EOA"
     /\ l1' = l1 \cup {t}
     /\ st' = [st EXCEPT ![c] = StatusAfterSend(c, TRUE)]
     /\ Goto(c, "returned")
     /\ UNCHANGED bg
  \/ /\ wallet = "EOA"     \* the provider throws: the user rejects the tx
     /\ Fail(c)
     /\ UNCHANGED <<l1, st, bg, args>>
  \/ /\ wallet = "CONTRACT"  \* the background sendTx starts; the loop polls
     /\ l1' = l1 \cup {t}
     /\ bg' = [bg EXCEPT ![c] = "pending"]
     /\ Goto(c, "satc.poll")
     /\ UNCHANGED st

ApproveReadAllowance(c) ==
  LET value == loc[c].requiredFunds
  IN /\ pc[c] = "approve.allowance"
     /\ \/ allowance >= value /\ Fail(c) /\ UNCHANGED <<l1, st, bg, args>>
        \/ allowance < value /\ PermitSupport
           /\ st' = [st EXCEPT ![c] = [loc[c] EXCEPT !.permitArgs = value,
                                                      !.permitDeadline = PermitDeadline]]
           /\ Goto(c, "returned") /\ UNCHANGED <<l1, bg, args>>
        \/ allowance < value /\ ~PermitSupport
           /\ SendTx(c, L1Tx(c, "approve", value, 0, 0))
     /\ UNCHANGED <<pd, allowance, approvedProofs, reverts, drops, poolVars, wallet, asset,
                    m, todo, loc, rd, alw, proof, args, now>>

DepositReadAllowance(c) ==
  /\ pc[c] = "deposit.allowance"
  /\ alw' = [alw EXCEPT ![c] = allowance]
  /\ Goto(c, "deposit.send")
  /\ UNCHANGED <<chainVars, poolVars, wallet, asset, m, todo, st, loc, rd, bg, proof, args>>

\* Mutant: the "Insufficient allowance" check is dropped.
DepositSendUnchecked(c) ==
  LET value == loc[c].requiredFunds
      op == IF PermitSupport /\ alw[c] < value THEN "depositPermit" ELSE "deposit"
  IN /\ pc[c] = "deposit.send" /\ m[c] = "depositFundsToContract"
     /\ \/ wallet = "CONTRACT" /\ proof[c] = "none" /\ Fail(c) /\ UNCHANGED <<l1, st, bg, args>>
        \/ /\ wallet = "EOA" \/ proof[c] # "none"
           /\ SendTx(c, L1Tx(c, op, value, IF op = "depositPermit" THEN value ELSE 0,
                                IF op = "depositPermit" THEN PermitDeadline ELSE 0))
     /\ UNCHANGED <<pd, allowance, approvedProofs, reverts, drops, poolVars, wallet, asset,
                    m, todo, loc, rd, alw, proof, args, now>>

\* depositFunds: a permit deposit when the allowance is short, with the
\* permitArgs approve() signed if any (for the requiredFunds of approve's
\* own read), else a plain deposit carrying the proof hash for a contract
\* wallet, for which getProofHash throws without a proof (the background
\* task's txError).
DepositSend(c) ==
  LET value == loc[c].requiredFunds
      op == IF PermitSupport /\ alw[c] < value THEN "depositPermit" ELSE "deposit"
      permit == IF op = "depositPermit"
                THEN IF loc[c].permitArgs # 0 THEN loc[c].permitArgs ELSE value
                ELSE 0
      deadline == IF op = "depositPermit"
                  THEN IF loc[c].permitArgs # 0 THEN loc[c].permitDeadline ELSE PermitDeadline
                  ELSE 0
  IN /\ pc[c] = "deposit.send" /\ m[c] = "depositFundsToContract"
     /\ \/ ~PermitSupport /\ alw[c] < value /\ Fail(c) /\ UNCHANGED <<l1, st, bg, args>>
        \/ /\ PermitSupport \/ alw[c] >= value
           /\ \/ wallet = "CONTRACT" /\ proof[c] = "none" /\ Fail(c) /\ UNCHANGED <<l1, st, bg, args>>
              \/ /\ wallet = "EOA" \/ proof[c] # "none"
                 /\ SendTx(c, L1Tx(c, op, value, permit, deadline))
     /\ UNCHANGED <<pd, allowance, approvedProofs, reverts, drops, poolVars, wallet, asset,
                    m, todo, loc, rd, alw, proof, args, now>>

\* depositFundsToContractWithNonStandardPermit (EOA only): a plain deposit
\* when the allowance covers the value, else a deposit with a DAI permit.
DepositNonStandardSend(c) ==
  LET value == loc[c].requiredFunds
      op == IF alw[c] >= value THEN "deposit" ELSE "depositPermitNonStandard"
  IN /\ pc[c] = "deposit.send" /\ m[c] = "depositFundsToContractWithNonStandardPermit"
     /\ SendTx(c, L1Tx(c, op, value, 0, IF op = "deposit" THEN 0 ELSE PermitDeadline))
     /\ UNCHANGED <<pd, allowance, approvedProofs, reverts, drops, poolVars, wallet, asset,
                    m, todo, loc, rd, alw, proof, args, now>>

---------------------------------------------------------------------------
(* sendTransactionAndCheckOnchainData: the background sendTx may set      *)
(* txHash or txError at any time, or never return; the loop polls the     *)
(* chain until one is set or the check holds, then sleeps for the         *)
(* confirmations. No caller passes a timeout.                             *)

SatcCheck(c) ==
  CASE m[c] = "approve" -> allowance >= loc[c].requiredFunds
    [] m[c] = "depositFundsToContract" -> pd = loc[c].pendingDeposit + loc[c].requiredFunds
    [] m[c] = "approveProof" -> IsProofApproved(c)

SatcOps == [approve |-> {"approve"}, depositFundsToContract |-> {"deposit"},
            approveProof |-> {"approveProof"}]

WalletReturnsHash(c) ==
  /\ pc[c] \in {"satc.poll", "satc.confirm"} /\ bg[c] = "pending"
  /\ bg' = [bg EXCEPT ![c] = "hash"]
  /\ UNCHANGED <<chainVars, poolVars, wallet, asset, m, pc, todo, st, loc, rd, alw, proof, args>>

\* sendTx rejects: either the wallet never broadcasts the tx, or it throws
\* although the tx is already out (in the mempool or mined), which the
\* catch at lines 505-508 cannot tell apart.
WalletThrows(c) ==
  /\ pc[c] \in {"satc.poll", "satc.confirm"} /\ bg[c] = "pending"
  /\ \/ \E t \in l1 :
          /\ t.from = c /\ t.op \in SatcOps[m[c]]
          /\ l1' = l1 \ {t}
     \/ UNCHANGED l1
  /\ bg' = [bg EXCEPT ![c] = "error"]
  /\ UNCHANGED <<pd, allowance, approvedProofs, reverts, drops, poolVars, wallet, asset,
                 m, pc, todo, st, loc, rd, alw, proof, args, now>>

SatcSeesOnchainData(c) ==
  /\ pc[c] = "satc.poll" /\ bg[c] = "pending"
  /\ SatcCheck(c)
  /\ Goto(c, "satc.confirm")
  /\ UNCHANGED <<chainVars, poolVars, wallet, asset, m, todo, st, loc, rd, alw, bg, proof, args>>

\* The loop ends: txError is thrown, else txHash (maybe undefined) returned.
SatcReturns(c) ==
  /\ \/ pc[c] = "satc.poll" /\ bg[c] \in {"hash", "error"}
     \/ pc[c] = "satc.confirm"
  /\ \/ bg[c] = "error" /\ Fail(c) /\ UNCHANGED st
     \/ bg[c] # "error" /\ Goto(c, "returned")
        /\ st' = [st EXCEPT ![c] = StatusAfterSend(c, bg[c] = "hash")]
  /\ bg' = [bg EXCEPT ![c] = "none"]
  /\ UNCHANGED <<chainVars, poolVars, wallet, asset, m, todo, loc, rd, alw, proof, args>>

---------------------------------------------------------------------------
(* awaitApprove, awaitDepositFundsToContract and awaitApproveProof:        *)
(* return at once for a contract wallet whose data was seen on chain,      *)
(* throw without a tx hash, else awaitTransaction: retryUntil the chain    *)
(* check holds (throwing after the user's timeout, if one is given).       *)

AwaitMethods == {"awaitApprove", "awaitDepositFundsToContract", "awaitApproveProof"}

\* Each await method as [the call, whether it returns at once, whether a
\* tx hash was recorded, the chain condition awaitTransaction polls].
AwaitApprove(c) ==
  [method |-> "awaitApprove", fromContract |-> st[c].approvedFromContractWallet,
   hash |-> st[c].approveTxHash, check |-> allowance >= st[c].requiredFunds]

\* Mutant: the deposit poll compares with > instead of ===.
AwaitDepositFundsToContractPastTarget(c) ==
  [method |-> "awaitDepositFundsToContract", fromContract |-> st[c].depositedFromContractWallet,
   hash |-> st[c].txHash, check |-> pd > st[c].pendingDeposit + st[c].requiredFunds]

AwaitDepositFundsToContract(c) ==
  [method |-> "awaitDepositFundsToContract", fromContract |-> st[c].depositedFromContractWallet,
   hash |-> st[c].txHash, check |-> pd = st[c].pendingDeposit + st[c].requiredFunds]

AwaitApproveProof(c) ==
  [method |-> "awaitApproveProof", fromContract |-> st[c].proofApprovedFromContractWallet,
   hash |-> st[c].approveProofTxHash, check |-> IsProofApproved(c)]

\* The await method controller c is running.
Awaiting(c) ==
  CHOOSE a \in {AwaitApprove(c), AwaitDepositFundsToContract(c), AwaitApproveProof(c)} :
    a.method = m[c]

AwaitStart(c) ==
  /\ pc[c] = "call" /\ m[c] \in AwaitMethods
  /\ \/ Awaiting(c).fromContract /\ Goto(c, "returned")
     \/ ~Awaiting(c).fromContract /\ ~Awaiting(c).hash /\ Fail(c)
     \/ ~Awaiting(c).fromContract /\ Awaiting(c).hash /\ Goto(c, "await.poll")
  /\ UNCHANGED <<chainVars, poolVars, wallet, asset, m, todo, st, loc, rd, alw, bg, proof, args>>

AwaitConfirmed(c) ==
  /\ pc[c] = "await.poll" /\ Awaiting(c).check
  /\ Goto(c, "returned")
  /\ UNCHANGED <<chainVars, poolVars, wallet, asset, m, todo, st, loc, rd, alw, bg, proof, args>>

AwaitTimesOut(c) ==
  /\ pc[c] = "await.poll" /\ TimeoutGiven /\ ~Awaiting(c).check
  /\ Fail(c)
  /\ UNCHANGED <<chainVars, poolVars, wallet, asset, m, todo, st, loc, rd, alw, bg, proof, args>>

---------------------------------------------------------------------------
(* The proof: createProof (with the fee proof when one is required),      *)
(* sign or approveProof, send, awaitSettlement.                            *)

CreateProof(c) ==
  /\ pc[c] = "call" /\ m[c] = "createProof"
  /\ proof' = [proof EXCEPT ![c] = "created"]
  /\ Goto(c, "returned")
  /\ UNCHANGED <<chainVars, poolVars, wallet, asset, m, todo, st, loc, rd, alw, bg, args>>

Sign(c) ==
  /\ pc[c] = "call" /\ m[c] = "sign"
  /\ \/ proof[c] = "none" /\ Fail(c) /\ UNCHANGED proof
     \/ proof[c] # "none" /\ proof' = [proof EXCEPT ![c] = "signed"] /\ Goto(c, "returned")
  /\ UNCHANGED <<chainVars, poolVars, wallet, asset, m, todo, st, loc, rd, alw, bg, args>>

ApproveProof(c) ==
  /\ pc[c] = "call" /\ m[c] = "approveProof"
  /\ \/ proof[c] = "none" /\ Fail(c) /\ UNCHANGED <<l1, st, bg, args>>
     \/ proof[c] # "none" /\ SendTx(c, L1Tx(c, "approveProof", 0, 0, 0))
  /\ UNCHANGED <<pd, allowance, approvedProofs, reverts, drops, poolVars, wallet, asset,
                 m, todo, loc, rd, alw, proof, args, now>>

\* send: without a signature the proof must be approved on chain; then
\* core.sendProofs puts the deposit proof into falafel's pool.
Send(c) ==
  /\ pc[c] = "call" /\ m[c] = "send"
  /\ \/ proof[c] = "none" /\ Fail(c) /\ UNCHANGED pool
     \/ proof[c] = "created" /\ ~IsProofApproved(c) /\ Fail(c) /\ UNCHANGED pool
     \/ /\ \/ proof[c] = "signed"
           \/ proof[c] = "created" /\ IsProofApproved(c)
        /\ pool' = Append(pool, DepositTx(c, PublicValue(args[c])))
        /\ Goto(c, "returned")
  /\ UNCHANGED <<chainVars, onChain, block, settled, rejected, wallet, asset,
                 m, todo, st, loc, rd, alw, bg, proof, args>>

\* core.awaitSettlement: resolves once the tx settles; a tx the block
\* validator deleted is reported as an error.
AwaitSettlement(c) ==
  /\ pc[c] = "call" /\ m[c] = "awaitSettlement"
  /\ \/ c \in settled /\ Goto(c, "returned")
     \/ c \in rejected /\ Fail(c)
  /\ UNCHANGED <<chainVars, poolVars, wallet, asset, m, todo, st, loc, rd, alw, bg, proof, args>>

---------------------------------------------------------------------------

Finished(c) ==
  \/ pc[c] = "failed"
  \/ pc[c] = "returned" /\ todo[c] = <<>> /\ m[c] = "awaitSettlement"

Init ==
  /\ pd \in {p \in InitPending : p >= MapThenSumSet(LAMBDA i : PriorValue[i], Prior)}
  /\ allowance = 0
  /\ approvedProofs = {}
  /\ reverts = {}
  /\ l1 = {}
  /\ drops = 0
  /\ now = 0
  /\ pool = [i \in 1..Cardinality(Prior) |-> DepositTx(SetToSeq(Prior)[i], PriorValue[SetToSeq(Prior)[i]])]
  /\ onChain = {} /\ block = FALSE /\ settled = {} /\ rejected = {}
  /\ wallet \in Wallets
  /\ asset \in Assets
  /\ args \in [Ctrl -> Args]
  /\ m = [c \in Ctrl |-> "constructor"]
  /\ pc = [c \in Ctrl |-> "new"]
  /\ todo = [c \in Ctrl |-> <<>>]
  /\ st = [c \in Ctrl |-> NoStatus]
  /\ loc = [c \in Ctrl |-> NoStatus]
  /\ rd = [c \in Ctrl |-> 0]
  /\ alw = [c \in Ctrl |-> 0]
  /\ bg = [c \in Ctrl |-> "none"]
  /\ proof = [c \in Ctrl |-> "none"]

Controller(c) ==
  \/ Construct(c) \/ Call(c)
  \/ ReadUserPendingDeposit(c) \/ GetPendingFundsStatus(c)
  \/ GetRequiredFunds(c) \/ CheckRequiredFunds(c)
  \/ ApproveReadAllowance(c) \/ DepositReadAllowance(c)
  \/ DepositSend(c) \/ DepositNonStandardSend(c)
  \/ SatcSeesOnchainData(c) \/ SatcReturns(c)
  \/ AwaitStart(c) \/ AwaitConfirmed(c) \/ AwaitTimesOut(c)
  \/ CreateProof(c) \/ Sign(c) \/ ApproveProof(c) \/ Send(c) \/ AwaitSettlement(c)

Wallet(c) == WalletReturnsHash(c) \/ WalletThrows(c)

Environment ==
  \/ \E t \in l1 : Mine(t) \/ Drop(t)
  \/ \E S \in SUBSET DOMAIN pool : RollupMined(S)
  \/ HandleBlock
  \/ Tick

\* Every flow has ended: nothing but the chain may still move.
Done == \A c \in Ctrl : Finished(c)

Next ==
  \/ \E c \in Ctrl : Controller(c) \/ Wallet(c)
  \/ Environment
  \/ Done /\ UNCHANGED vars

\* The event loop runs every ready step; miners include every broadcast
\* tx; the rollup provider eventually publishes each pool deposit that fits
\* (the coordinator's liveness) and falafel handles every block. A poll
\* repeats forever, so a check that holds infinitely often is eventually
\* seen. The wallet has no fairness: its sendTx may never return.
Fairness ==
  /\ \A c \in Ctrl :
       /\ WF_vars(Controller(c) /\ ~(pc[c] \in {"satc.poll", "await.poll"}))
       /\ SF_vars(SatcSeesOnchainData(c)) /\ WF_vars(SatcReturns(c))
       /\ SF_vars(AwaitConfirmed(c)) /\ WF_vars(AwaitTimesOut(c))
  /\ WF_vars(\E t \in l1 : Mine(t))
  /\ \A id \in Ctrl \cup Prior :
       WF_vars(\E i \in DOMAIN pool : pool[i].id = id /\ RollupMined({i}))
  /\ WF_vars(HandleBlock)

Spec == Init /\ [][Next]_vars /\ Fairness

---------------------------------------------------------------------------
(* Properties.                                                             *)

TypeOK ==
  /\ pd \in Nat /\ allowance \in Nat /\ now \in 0..MaxMinutes /\ approvedProofs \subseteq Ctrl /\ reverts \subseteq Ctrl
  /\ \A t \in l1 : t.from \in Ctrl /\ t.permit \in Nat /\ t.op \in {"approve", "deposit", "depositPermit",
                                                  "depositPermitNonStandard", "approveProof"}
  /\ pool \in Seq([id : Ctrl \cup Prior, kind : {"DEPOSIT"}, key : {TheKey}, value : Nat,
                   spent : {FALSE}, link : {NoLink}, note1 : (Ctrl \cup Prior) \X {1},
                   note2 : (Ctrl \cup Prior) \X {2}])
  /\ onChain \cup settled \cup rejected \subseteq Ctrl \cup Prior
  /\ wallet \in Wallets /\ asset \in Assets
  /\ m \in [Ctrl -> Methods]
  /\ todo \in [Ctrl -> Seq(Methods)]
  /\ \A c \in Ctrl : st[c].requiredFunds \in Nat /\ loc[c].requiredFunds \in Nat
  /\ bg \in [Ctrl -> {"none", "pending", "hash", "error"}]
  /\ proof \in [Ctrl -> {"none", "created", "signed"}]
  /\ args \in [Ctrl -> Args]

\* The point of getPendingFundsStatus: a controller that tops the pending
\* deposit up to what its proof spends, and sends the proof, never has it
\* deleted by the block validator for breaching the pending deposit.
NoDepositRejected == rejected \cap Ctrl = {}

\* The checks before a deposit tx is sent (the allowance read of
\* depositFundsToContract, the permit it signs or approve() signed) make
\* every deposit the controller sends succeed when it is mined.
NoDepositReverts == reverts = {}

\* The deposit proofs of the pool whose rollup is not mined yet, with
\* their values: what the rollup contract still has to take from the
\* pending deposit.
UnsettledDeposits ==
  LET live == {i \in DOMAIN pool : pool[i].id \notin onChain}
  IN [id \in {pool[i].id : i \in live} |-> pool[CHOOSE i \in live : pool[i].id = id].value]

Funds == INSTANCE DepositFunding WITH TxId <- Ctrl \cup Prior,
           pool <- UnsettledDeposits, settled <- settled \cup onChain

\* The deposit flows implement DepositFunding: the controller sends its
\* proof only once the pending deposit, read through getPendingFundsStatus
\* and topped up by depositFundsToContract, covers it on top of the pool's
\* unsettled deposits, and every proof sent settles.
ImplementsFunding == Funds!Spec

\* depositFundsToContract never broadcasts a permit deposit whose deadline
\* has already passed: the block would revert it (deadline >= timestamp).
NoExpiredPermitSent ==
  [][\A t \in l1' \ l1 : t.op \in PermitOps => now <= t.deadline]_vars

\* Every deposit flow ends: the user's awaits return or throw, and the tx
\* settles or is reported deleted.
FlowTerminates == \A c \in Ctrl : <>Finished(c)

=============================================================================
