------------------------------- MODULE MCHub -------------------------------
(* The hub with model values for the connections (see the cfgs).           *)
EXTENDS Hub
=============================================================================
