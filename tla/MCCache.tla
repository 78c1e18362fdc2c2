------------------------------ MODULE MCCache ------------------------------
(* The cache on three keys, two values and two TTLs, with room for two     *)
(* entries, so that SetWithTTL evicts, overwrites and sets on a full map.  *)
EXTENDS Cache

MCKeys == {"routes:all", "route:1", "route:2"}
MCValues == {"r1", "r2"}
MCTTLs == {1, 2}
=============================================================================
