--------------------------- MODULE MCProxyScaling ---------------------------
(* Small instances of ProxyScaling for TLC. *)
EXTENDS ProxyScaling

\* Also configurations that Validate refuses.
MCConfigs == [perProxy : 0 .. 2, minReplicas : {-1, 0, 2}, maxReplicas : 0 .. 1]
=============================================================================
