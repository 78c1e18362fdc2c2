--------------------------- MODULE MCLoadBalancer ---------------------------
(* The load balancer of NewV2, for TLC.                                    *)
EXTENDS LoadBalancer
=============================================================================
