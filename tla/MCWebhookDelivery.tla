------------------------- MODULE MCWebhookDelivery -------------------------
(* Instances of WebhookDelivery for TLC.  No symmetry: liveness is checked. *)
EXTENDS WebhookDelivery
=============================================================================
