---------------------------- MODULE RollupBatching ----------------------------
(***************************************************************************)
(* What the sequencer promises about the rollups it publishes, whatever    *)
(* its batching policy: a rollup is a nonempty sequence of distinct txs    *)
(* taken from the pending pool, within the rollup's resource limits, in    *)
(* which every tx whose parent must come first finds that parent in an     *)
(* earlier rollup or earlier in the same one; a published tx leaves the    *)
(* pool and is never published again. When and which txs are chosen is    *)
(* left open: that is the coordinator's policy (RollupCoordinator).        *)
(***************************************************************************)
EXTENDS Integers, Sequences, FiniteSets, SequencesExt

CONSTANTS
  TxId,          \* the txs clients may submit
  Tables,        \* the possible tx tables (what each tx is)
  Fits(_, _),    \* Fits(table, r): the rollup r is within the resource limits
  Guards(_, _)   \* Guards(table, id): the parents id must not be published before

VARIABLES
  table,         \* the tx table of this behaviour
  pool,          \* submitted txs not yet published
  published      \* the rollups published so far, in order

vars == <<table, pool, published>>

Published == UNION {ToSet(published[i]) : i \in DOMAIN published}

ParentsFirst(r) ==
  \A k \in DOMAIN r :
    \A p \in Guards(table, r[k]) : p \in Published \/ \E j \in 1..(k - 1) : r[j] = p

Init == table \in Tables /\ pool = {} /\ published = <<>>

Submit(id) ==
  /\ id \notin pool \cup Published
  /\ pool' = pool \cup {id}
  /\ UNCHANGED <<table, published>>

Publish(r) ==
  /\ r # <<>> /\ IsInjective(r) /\ ToSet(r) \subseteq pool
  /\ Fits(table, r)
  /\ ParentsFirst(r)
  /\ pool' = pool \ ToSet(r)
  /\ published' = Append(published, r)
  /\ UNCHANGED table

Next ==
  \/ \E id \in TxId : Submit(id)
  \/ \E n \in 1..Cardinality(pool) : \E r \in [1..n -> pool] : Publish(r)

Spec == Init /\ [][Next]_vars

=============================================================================
