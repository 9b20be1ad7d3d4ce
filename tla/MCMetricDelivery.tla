-------------------------- MODULE MCMetricDelivery --------------------------
(***************************************************************************)
(* MetricDelivery on small instances: see the cfg files for the bounds.    *)
(***************************************************************************)
EXTENDS MetricDelivery

=============================================================================
