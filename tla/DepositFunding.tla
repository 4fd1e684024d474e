---------------------------- MODULE DepositFunding ----------------------------
(***************************************************************************)
(* What a depositor's deposit flows promise the rollup, whatever the SDK  *)
(* does to get there: the rollup contract holds a pending deposit for the *)
(* depositor, which only L1 deposits raise; a deposit proof joins the     *)
(* rollup provider's pool only when the pending deposit covers it on top  *)
(* of every unsettled deposit proof already there; a rollup settles some *)
(* pool proofs and spends their value from the pending deposit. No proof  *)
(* is ever rejected, and every proof in the pool eventually settles.      *)
(* DepositController refines it.                                          *)
(***************************************************************************)
EXTENDS Integers, FiniteSets, FiniteSetsExt, Functions

CONSTANT TxId          \* the deposit proofs of the depositor

VARIABLES
  pd,          \* the pending deposit held by the rollup contract
  pool,        \* unsettled deposit proofs in the pool: [id -> value]
  settled      \* ids of settled proofs

vars == <<pd, pool, settled>>

\* The value the proofs S of the pool spend.
Spent(S) == MapThenSumSet(LAMBDA id : pool[id], S)

Init == pd \in Nat /\ pool = <<>> /\ settled = {}

\* An L1 deposit raises the pending deposit.
Fund ==
  /\ pd' > pd
  /\ UNCHANGED <<pool, settled>>

\* A proof of some value joins the pool, covered by the pending deposit.
Propose(id) ==
  /\ id \notin DOMAIN pool \cup settled
  /\ DOMAIN pool' = DOMAIN pool \cup {id}
  /\ Restrict(pool', DOMAIN pool) = pool
  /\ MapThenSumSet(LAMBDA i : pool'[i], DOMAIN pool') <= pd
  /\ UNCHANGED <<pd, settled>>

\* A rollup settles the pool proofs S and spends their value.
Settle(S) ==
  /\ S # {} /\ S \subseteq DOMAIN pool
  /\ pd' = pd - Spent(S)
  /\ pool' = Restrict(pool, DOMAIN pool \ S)
  /\ settled' = settled \cup S

Next ==
  \/ Fund
  \/ \E id \in TxId : Propose(id)
  \/ \E S \in SUBSET DOMAIN pool : Settle(S)

Spec == Init /\ [][Next]_vars /\ \A id \in TxId : WF_vars(Settle({id}))

\* The pending deposit always covers the unsettled proofs.
Covered == Spent(DOMAIN pool) <= pd

=============================================================================
