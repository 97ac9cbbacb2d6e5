-------------------------- MODULE MCWebhookDelivery --------------------------
(* The instance of WebhookDelivery that TLC checks.                        *)
EXTENDS WebhookDelivery

CONSTANTS d1, d2

TwoDeliveries == {d1, d2}
AllFaults == FaultKinds
=============================================================================
