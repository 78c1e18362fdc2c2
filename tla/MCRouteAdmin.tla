--------------------------- MODULE MCRouteAdmin ---------------------------
(* Instances of RouteAdmin.  Canonical ids: "1" and "2" name routes 1 and  *)
(* 2.  Aliased ids: "1" and "01" both parse to route 1 (strconv.Atoi       *)
(* accepts leading zeros).                                                 *)
EXTENDS RouteAdmin

CanonicalStrs == {"1", "2"}
CanonicalIdOf == [s \in CanonicalStrs |-> IF s = "1" THEN 1 ELSE 2]

AliasedStrs == {"1", "01"}
AliasedIdOf == [s \in AliasedStrs |-> 1]
=============================================================================
