----------------------------- MODULE MCLendPool -----------------------------
(***************************************************************************)
(* Instances of the lending pool for TLC.  A ray of 10000 and a year of    *)
(* one time unit make each unit of time accrue visible interest.           *)
(***************************************************************************)
EXTENDS LendPool, TLC

CONSTANTS alice, bob, azuki, weth

MCUsers == {alice, bob}
MCNftAssets == {azuki}
MCReserves == {weth}
MCReservePrice == [r \in MCReserves |-> 10]

\* Prices at which a loan of the instance is healthy and unhealthy
MCReadings == [price : {8, 20}, stale : {FALSE}]
StaleReadings == {[price |-> 8, stale |-> FALSE], [price |-> 8, stale |-> TRUE]}
SameReadings == [price : {20}, stale : {FALSE}]
NoTimes == {}
MCTimes == {<<1, 1>>}

MCSymmetry == Permutations(MCUsers)
=============================================================================
