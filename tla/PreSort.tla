------------------------------- MODULE PreSort -------------------------------
(***************************************************************************)
(* The pre-sort of RollupCoordinator.getNextTxsToRollup                    *)
(* (src/falafel/src/pipeline_coordinator/rollup_coordinator.ts:102-104):   *)
(*                                                                         *)
(*   [...pendingTxs].sort((a, b) =>                                        *)
(*     a.txType === TxType.DEFI_CLAIM && a.txType !== b.txType ? -1 : 1)   *)
(*                                                                         *)
(* The comparator never answers 0 and is not antisymmetric (cmp(a, a) is   *)
(* 1), so ECMAScript leaves the resulting order to the engine. Node's V8   *)
(* sorts an array of fewer than 64 elements by TimSort's first two steps: *)
(* CountAndMakeRun finds the leading run (reversing it if strictly         *)
(* descending) and BinaryInsertionSort inserts every later element into   *)
(* the sorted prefix. Both are written here as recursive operators over a  *)
(* sequence of txs, each a record with its pool position and its type.    *)
(***************************************************************************)
EXTENDS Integers, Sequences

\* Mutant: the comparator without its a.txType !== b.txType clause.
CompareClaimFirst(a, b) == IF a.txType = "DEFI_CLAIM" THEN -1 ELSE 1

\* The comparator of getNextTxsToRollup.
Compare(a, b) == IF a.txType = "DEFI_CLAIM" /\ a.txType # b.txType THEN -1 ELSE 1

ReverseRun(s, n) == [i \in 1..Len(s) |-> IF i <= n THEN s[n + 1 - i] ELSE s[i]]

\* CountAndMakeRun over the whole array: the length of the leading run,
\* with a strictly descending run reversed in place. Needs Len(s) >= 2.
MakeRun(s) ==
  LET descending == Compare(s[2], s[1]) < 0
      RECURSIVE Extend(_)
      \* idx is the next element; the run is s[1..idx-1].
      Extend(idx) ==
        IF idx > Len(s) THEN idx - 1
        ELSE LET order == Compare(s[idx], s[idx - 1])
             IN IF \/ descending /\ order >= 0
                   \/ ~descending /\ order < 0
                THEN idx - 1 ELSE Extend(idx + 1)
      runLength == Extend(3)
  IN [seq |-> IF descending THEN ReverseRun(s, runLength) ELSE s, len |-> runLength]

\* The binary search of BinaryInsertionSort: the first position of the
\* sorted prefix s[left..right-1] before which pivot is placed.
RECURSIVE InsertionPoint(_, _, _, _)
InsertionPoint(s, pivot, left, right) ==
  IF left >= right THEN left
  ELSE LET mid == left + (right - left) \div 2
       IN IF Compare(pivot, s[mid]) < 0 THEN InsertionPoint(s, pivot, left, mid)
          ELSE InsertionPoint(s, pivot, mid + 1, right)

\* BinaryInsertionSort from position start to the end.
RECURSIVE BinaryInsertionSort(_, _)
BinaryInsertionSort(s, start) ==
  IF start > Len(s) THEN s
  ELSE LET pivot == s[start]
           left == InsertionPoint(s, pivot, 1, start)
           moved == SubSeq(s, 1, left - 1) \o <<pivot>> \o SubSeq(s, left, start - 1)
                      \o SubSeq(s, start + 1, Len(s))
       IN BinaryInsertionSort(moved, start + 1)

\* Array.prototype.sort of V8 for arrays shorter than 64 elements.
ArraySort(s) ==
  IF Len(s) < 2 THEN s
  ELSE LET run == MakeRun(s)
       IN BinaryInsertionSort(run.seq, run.len + 1)

=============================================================================
