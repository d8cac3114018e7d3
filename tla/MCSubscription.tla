--------------------------- MODULE MCSubscription ---------------------------
(***************************************************************************)
(* A small instance of the subscription of one company for TLC.            *)
(***************************************************************************)
EXTENDS Subscription

CONSTANTS w1, w2

MCWorkers       == {w1, w2}
MCOne           == {w1}
MCStripeChoices == {"active", "past_due"}
MCPeriodChoices == {0, NoTime}
MCAdminChoices  == {"CANCELED"}
=============================================================================
