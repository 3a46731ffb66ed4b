--------------------------- MODULE MCWebhookQueue ---------------------------
(* WebhookQueue for TLC.  No symmetry: the run checks liveness too.        *)
EXTENDS WebhookQueue

CONSTANTS v1, v2, h1, h2
=============================================================================
