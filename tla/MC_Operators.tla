----------------------------- MODULE MC_Operators -----------------------------
(* Checks the pure operators against reference definitions, one input per  *)
(* initial state: the block validator's walk (RejectedTxs) against a      *)
(* declarative definition of the rejected set, over every pending pool of  *)
(* up to MaxPool txs of a small alphabet, and against the expected         *)
(* deletions of the validator tests of src/falafel/src/world_state.test.ts *)
(* (values in thousands: 10000 is 10, 29999 is 29, which keeps every       *)
(* comparison of the tests); V8's sort with the pre-sort comparator       *)
(* against the order spec section 4.3 asks for, over every pool of up to  *)
(* MaxLen txs of TxTypes.                                                  *)
EXTENDS PreSort, BlockValidator, FiniteSetsExt

CONSTANTS TxTypes, MaxLen, Keys, NoLink, MaxPool, MaxValue, MaxPending

VARIABLE input

---------------------------------------------------------------------------
(* Block validator inputs: [pending, pendingDeposit, tested, expected].     *)

Note(i, n) == <<i, n>>

k1 == CHOOSE k \in Keys : TRUE
k2 == CHOOSE k \in Keys : k # k1

\* A tx of position i: deposits carry a key and a value; sends (whose key
\* the validator ignores) may have a spent nullifier and may chain off a
\* note of an earlier position.
TxsAt(i) ==
  [kind : {"DEPOSIT"}, key : Keys, value : 1..MaxValue, spent : {FALSE},
   link : {NoLink}, note1 : {Note(i, 1)}, note2 : {Note(i, 2)}]
  \cup
  [kind : {"SEND"}, key : {k1}, value : {0}, spent : BOOLEAN,
   link : {NoLink} \cup {Note(j, n) : j \in 1..(i - 1), n \in {1, 2}},
   note1 : {Note(i, 1)}, note2 : {Note(i, 2)}]

RECURSIVE PoolsOf(_)
PoolsOf(n) ==
  IF n = 0 THEN {<<>>}
  ELSE {p \o <<t>> : p \in PoolsOf(n - 1), t \in TxsAt(n)}

Enumerated ==
  [pending : UNION {PoolsOf(n) : n \in 0..MaxPool},
   pendingDeposit : [Keys -> 0..MaxPending], tested : {FALSE}, expected : {{}}]

---------------------------------------------------------------------------
(* The scenarios of world_state.test.ts.                                   *)

Send(i, spent, link) ==
  [kind |-> "SEND", key |-> k1, value |-> 0, spent |-> spent, link |-> link,
   note1 |-> Note(i, 1), note2 |-> Note(i, 2)]
Dep(i, key, v) ==
  [kind |-> "DEPOSIT", key |-> key, value |-> v, spent |-> FALSE, link |-> NoLink,
   note1 |-> Note(i, 1), note2 |-> Note(i, 2)]
Deps(first, key, vs) == [i \in 1..Len(vs) |-> Dep(first + i - 1, key, vs[i])]
Vals6 == <<10, 10, 10, 5, 5, 4>>
\* A commitment the tests fix by hand (position 0 is no tx).
Chained(n) == <<0, n>>
\* Overwrite one note commitment of a tx with a named commitment.
WithNote1(t, c) == [t EXCEPT !.note1 = c]
WithNote2(t, c) == [t EXCEPT !.note2 = c]
Pd(a, b) == [k \in Keys |-> IF k = k1 THEN a ELSE b]

TestScenarios == {
  \* double spend should be rejected due to a spent nullifier
  [pending |-> <<Send(1, TRUE, NoLink)>>, pendingDeposit |-> Pd(0, 0), tested |-> TRUE, expected |-> {1}],
  \* no txs are rejected if they do not match nullifiers
  [pending |-> <<Send(1, FALSE, NoLink), Send(2, FALSE, NoLink)>>,
   pendingDeposit |-> Pd(0, 0), tested |-> TRUE, expected |-> {}],
  \* tx is rejected if it breaches the pending deposit
  [pending |-> <<Dep(1, k1, 10)>>, pendingDeposit |-> Pd(5, 0), tested |-> TRUE, expected |-> {1}],
  \* txs are rejected once they breach the pending deposit
  [pending |-> Deps(1, k1, <<10, 10, 10, 10>>), pendingDeposit |-> Pd(29, 0), tested |-> TRUE, expected |-> {3, 4}],
  \* pending deposit validation is based on asset and owner
  [pending |-> Deps(1, k1, <<10, 10, 10, 10>>) \o Deps(5, k2, <<10, 10, 10, 10>>),
   pendingDeposit |-> Pd(29, 39), tested |-> TRUE, expected |-> {3, 4, 8}],
  \* txs are still accepted even if after a tx that was rejected
  [pending |-> Deps(1, k1, Vals6) \o Deps(7, k2, Vals6),
   pendingDeposit |-> Pd(29, 19), tested |-> TRUE, expected |-> {3, 5, 8, 9, 11}],
  \* tx is rejected if it chains off note 1 of a rejected tx
  [pending |-> [Deps(1, k1, Vals6) EXCEPT ![5] = WithNote1(@, Chained(1))] \o <<Send(7, FALSE, Chained(1))>>,
   pendingDeposit |-> Pd(29, 0), tested |-> TRUE, expected |-> {3, 5, 7}],
  \* tx is rejected if it chains off note 2 of a rejected tx
  [pending |-> [Deps(1, k1, Vals6) EXCEPT ![5] = WithNote2(@, Chained(1))] \o <<Send(7, FALSE, Chained(1))>>,
   pendingDeposit |-> Pd(29, 0), tested |-> TRUE, expected |-> {3, 5, 7}],
  \* all txs in chain are rejected
  [pending |-> [Deps(1, k1, Vals6) EXCEPT ![5] = WithNote1(@, Chained(1))]
               \o << WithNote1(Send(7, FALSE, NoLink), Chained(3)),
                     WithNote1(Send(8, TRUE, NoLink), Chained(4)),
                     WithNote2(Send(9, FALSE, Chained(1)), Chained(2)),
                     Send(10, FALSE, Chained(2)),
                     Send(11, FALSE, Chained(3)),
                     WithNote2(Send(12, FALSE, Chained(4)), Chained(5)),
                     Send(13, FALSE, Chained(5)) >>,
   pendingDeposit |-> Pd(29, 0), tested |-> TRUE, expected |-> {3, 5, 8, 9, 10, 12, 13}]}

BlockInputs == {[kind |-> "block", case |-> r] : r \in Enumerated \cup TestScenarios}

---------------------------------------------------------------------------
(* Pools for the pre-sort.                                                 *)

RECURSIVE SeqsUpTo(_)
SeqsUpTo(n) ==
  IF n = 0 THEN {<<>>}
  ELSE SeqsUpTo(n - 1) \cup {s \o <<t>> : s \in SeqsUpTo(n - 1), t \in TxTypes}

\* The pool: each tx tagged with its position, so an order is observable.
Pool(types) == [i \in DOMAIN types |-> [pos |-> i, txType |-> types[i]]]

Init ==
  input \in BlockInputs
            \cup {[kind |-> "pool", txs |-> Pool(s)] : s \in SeqsUpTo(MaxLen)}
Next == UNCHANGED input

\* The reference: a set R of positions is "the rejected set" when each
\* position is in R exactly when the tx has a spent nullifier, or is a
\* deposit that, with the deposits of its key outside R before it, exceeds
\* the key's pending deposit, or chains off a note of a tx in R before it.
ConsistentRejection(R) ==
  LET p == input.case.pending
  IN \A i \in DOMAIN p :
       (i \in R) <=>
         \/ p[i].spent
         \/ /\ p[i].kind = "DEPOSIT"
            /\ p[i].value
                 + MapThenSumSet(LAMBDA j : p[j].value,
                                 {j \in 1..(i - 1) \ R : p[j].kind = "DEPOSIT" /\ p[j].key = p[i].key})
                 > input.case.pendingDeposit[p[i].key]
         \/ p[i].link # NoLink
            /\ \E j \in R : j < i /\ p[i].link \in Notes(p[j])

Result == RejectedTxs(input.case.pending, input.case.pendingDeposit, Keys, NoLink)

\* The single pass of the validator (spec 4.7) rejects exactly the set the
\* declarative definition describes, that set is unique (no order of
\* acceptance other than insertion order is implied by the walk), and on
\* the scenarios of world_state.test.ts it is the set of deleted txs the
\* tests expect.
WalkMatchesDefinition ==
  input.kind = "block" =>
    /\ ConsistentRejection(Result)
    /\ \A R \in SUBSET DOMAIN input.case.pending : ConsistentRejection(R) => R = Result
    /\ input.case.tested => Result = input.case.expected


\* The reference (spec 4.3 and I5): a stable sort bringing DEFI_CLAIM txs
\* to the front, each group in pool order.
ClaimsFirst(s) ==
  SelectSeq(s, LAMBDA t : t.txType = "DEFI_CLAIM") \o SelectSeq(s, LAMBDA t : t.txType # "DEFI_CLAIM")

\* The engine's sort with the code's inconsistent comparator still yields
\* the stable claims-first order the coordinator's selection relies on.
PreSortIsStableClaimsFirst ==
  input.kind = "pool" => ArraySort(input.txs) = ClaimsFirst(input.txs)

====
