------------------------- MODULE MCSodchanHandshake -------------------------
(* Sets of configurations for SodchanHandshake. *)
EXTENDS SodchanHandshake

AllConfigs == ConfigSet

============================================================================
