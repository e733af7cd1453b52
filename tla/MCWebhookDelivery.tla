------------------------- MODULE MCWebhookDelivery -------------------------
(***************************************************************************)
(* Two webhooks: "up" accepts every POST and stays active; "down" answers  *)
(* as it likes and is switched off and on.                                 *)
(***************************************************************************)
EXTENDS WebhookDelivery

CONSTANTS e1, up, down, p1, p2, r1, none
=============================================================================
