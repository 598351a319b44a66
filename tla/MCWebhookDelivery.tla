------------------------- MODULE MCWebhookDelivery -------------------------
(* Small instances of WebhookDelivery for TLC.                               *)
EXTENDS WebhookDelivery

CONSTANTS i1, i2, i3, w

OneHook == [i \in Items |-> w]
=============================================================================
