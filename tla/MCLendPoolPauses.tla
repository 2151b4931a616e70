-------------------------- MODULE MCLendPoolPauses --------------------------
(***************************************************************************)
(* Instance of the lending pool that is paused while auctions run.         *)
(***************************************************************************)
EXTENDS MCLendPool, PauseHistory
=============================================================================
