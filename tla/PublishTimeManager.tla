------------------------- MODULE PublishTimeManager -------------------------
(***************************************************************************)
(* Rollup-number-aligned publish deadlines (publish_time_manager.ts, whose *)
(* source is not in this repository: modelled from spec section 4.1 and    *)
(* from its unit test src/unnamed/part_003).                               *)
(*                                                                         *)
(* Time is whole seconds since the epoch, which is what the test's clock   *)
(* gives; the conversion from an ISO date string with a timezone offset    *)
(* to UTC seconds is abstracted away because it is exact.                  *)
(***************************************************************************)
EXTENDS Integers

CONSTANTS
  BaseInterval,     \* baseIntervalSecs; 0 stands for any interval < 1 s
  Configured,       \* bridgeCallData of every BridgeConfig
  RollupFrequency   \* [Configured -> Int], BridgeConfig.rollupFrequency

ASSUME BaseInterval \in Nat
ASSUME RollupFrequency \in [Configured -> Int]

\* Bridges whose deadline is tracked: rollupFrequency >= 1.
TimedBridges == {b \in Configured : RollupFrequency[b] >= 1}

\* A timeout boundary: the instant and the rollup number it belongs to.
Boundary(n, interval) == [time |-> n * interval, rollupNumber |-> n]

\* calculateLastTimeouts(): the most recent boundary at or before now. When
\* the base interval is < 1 s there is no base timeout and no bridge one.
LastTimeouts(now) ==
  IF BaseInterval < 1
  THEN [hasBase |-> FALSE, base |-> Boundary(0, 0), bridge |-> <<>>]
  ELSE [hasBase |-> TRUE,
        base    |-> Boundary(now \div BaseInterval, BaseInterval),
        bridge  |-> [b \in TimedBridges |->
                       LET iv == BaseInterval * RollupFrequency[b]
                       IN Boundary(now \div iv, iv)]]

=============================================================================
