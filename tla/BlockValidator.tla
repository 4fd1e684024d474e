---------------------------- MODULE BlockValidator ----------------------------
(***************************************************************************)
(* The block-level validator of falafel's world state (world_state.ts,     *)
(* whose source is not in this repository: modelled from spec section 4.7 *)
(* and the expectations of src/falafel/src/world_state.test.ts).           *)
(*                                                                         *)
(* On every block, the pending txs are walked in insertion order and a tx  *)
(* is rejected when one of its nullifiers is already spent, when it is a   *)
(* deposit whose value together with the deposits accepted before it for   *)
(* the same (asset, owner) exceeds that owner's on-chain pending deposit,  *)
(* or when it chains off a note of a tx rejected before it.                *)
(*                                                                         *)
(* A pending tx is a record: its proof kind, its (asset, owner) key, its   *)
(* public value, whether a nullifier is already spent, its backward link   *)
(* and its two note commitments. Position i of the pending sequence is    *)
(* the tx's identity.                                                      *)
(***************************************************************************)
EXTENDS Integers, Sequences, FiniteSets

\* The note commitments a tx produces.
Notes(t) == {t.note1, t.note2}

\* Mutant: a deposit that exactly reaches the pending deposit is rejected.
BreachesPendingDepositAtCap(t, consumed, pendingDeposit) ==
  /\ t.kind = "DEPOSIT"
  /\ consumed[t.key] + t.value >= pendingDeposit[t.key]

\* Step 2 of the walk: the deposit cap of t's key, given the sums already
\* consumed by accepted deposits per key and the chain's pending deposits.
BreachesPendingDeposit(t, consumed, pendingDeposit) ==
  /\ t.kind = "DEPOSIT"
  /\ consumed[t.key] + t.value > pendingDeposit[t.key]

\* Mutant: a tx rejected for chaining off a rejected note does not pass
\* the rejection on to the txs chained off its own notes.
RejectedTxsOneHop(pending, pendingDeposit, Keys, NoLink) ==
  LET RECURSIVE Walk(_, _, _, _)
      Walk(i, consumed, rejectedNotes, rejected) ==
        IF i > Len(pending) THEN rejected
        ELSE LET t == pending[i]
                 own == t.spent \/ BreachesPendingDeposit(t, consumed, pendingDeposit)
                 chained == t.link # NoLink /\ t.link \in rejectedNotes
             IN IF own \/ chained
                THEN Walk(i + 1, consumed,
                          IF own THEN rejectedNotes \cup Notes(t) ELSE rejectedNotes,
                          rejected \cup {i})
                ELSE Walk(i + 1,
                          IF t.kind = "DEPOSIT"
                          THEN [consumed EXCEPT ![t.key] = @ + t.value] ELSE consumed,
                          rejectedNotes, rejected)
  IN Walk(1, [k \in Keys |-> 0], {}, {})

\* The walk of the pending txs: returns the set of rejected positions.
\* consumed maps each key to the value of deposits accepted so far.
RejectedTxs(pending, pendingDeposit, Keys, NoLink) ==
  LET RECURSIVE Walk(_, _, _, _)
      Walk(i, consumed, rejectedNotes, rejected) ==
        IF i > Len(pending) THEN rejected
        ELSE LET t == pending[i]
                 reject == \/ t.spent
                           \/ BreachesPendingDeposit(t, consumed, pendingDeposit)
                           \/ t.link # NoLink /\ t.link \in rejectedNotes
             IN IF reject
                THEN Walk(i + 1, consumed, rejectedNotes \cup Notes(t), rejected \cup {i})
                ELSE Walk(i + 1,
                          IF t.kind = "DEPOSIT"
                          THEN [consumed EXCEPT ![t.key] = @ + t.value] ELSE consumed,
                          rejectedNotes, rejected)
  IN Walk(1, [k \in Keys |-> 0], {}, {})

=============================================================================
