-------------------------- MODULE MCDeliveryQueue --------------------------
\* Messages that can be queued while a drain is under way.
EXTENDS DeliveryQueue
CONSTANTS m1, m2, m3, d1, d2
=============================================================================
