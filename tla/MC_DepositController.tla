------------------------- MODULE MC_DepositController -------------------------
(* Instances of DepositController for TLC. *)
EXTENDS DepositController

\* A deposit of 1 with a same-asset fee of 1: publicInput.value 2.
MCArg2 == [value |-> 1, fee |-> 1, feeSameAsset |-> TRUE, feePayer |-> FALSE]

\* A deposit of 1 without fee.
MCArg1 == [value |-> 1, fee |-> 0, feeSameAsset |-> TRUE, feePayer |-> FALSE]

\* One deposit of publicInput.value 2.
MCArgs2 == {MCArg2}

\* Every shape of createDepositController's arguments: a same-asset fee,
\* a fee in another asset with and without a fee payer (the latter
\* throws), a same-asset fee paid by a fee payer, and nothing (throws).
MCArgs ==
  {MCArg2,
   [value |-> 2, fee |-> 1, feeSameAsset |-> FALSE, feePayer |-> TRUE],
   [value |-> 2, fee |-> 1, feeSameAsset |-> FALSE, feePayer |-> FALSE],
   [value |-> 1, fee |-> 1, feeSameAsset |-> TRUE, feePayer |-> TRUE],
   [value |-> 0, fee |-> 0, feeSameAsset |-> TRUE, feePayer |-> FALSE]}

\* A deposit of value 1 the depositor sent earlier, still unsettled.
MCPriorValue == [p \in Prior |-> 1]

\* Flows of publicInput.value 2 or 1.
MCArgsMixed == {MCArg2, MCArg1}
====
