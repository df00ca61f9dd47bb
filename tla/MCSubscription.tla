--------------------------- MODULE MCSubscription ---------------------------
(* Instantiates Subscription for TLC: one plain and one moderator client,  *)
(* two targets, at most three Subscription objects and one transport error.*)
EXTENDS Subscription

MCMaxSubs == 3
MCMaxErrors == 1
MCMaxRounds == 2
=============================================================================
